---- MODULE Spec2Model ----
(***************************************************************************)
(* Model of the drawdown / recovery analytics of the MARKET page           *)
(* (src/pages/1_Market.py): the drawdown scan, the top-15 ranking, the     *)
(* frequency-of-drops table and the worst-quarter forward-return table.    *)
(*                                                                         *)
(* Conventions.                                                            *)
(*  - Python's None / NaN is the empty sequence None; a present value v is *)
(*    Some(v) = <<v>>.                                                     *)
(*  - A pandas Timestamp is its day ordinal (days since 1970-01-01); its   *)
(*    "%Y-%m-%d" text is the triple <<y, m, d>>, ordered as the text is.   *)
(*  - Closes are whole numbers.  A quotient the code computes in double    *)
(*    precision is kept exact as a pair <<num, den>> with den > 0; on the   *)
(*    closes used here the double compares with the thresholds and rounds  *)
(*    to one decimal as the exact quotient does.                           *)
(*  - A value rounded to one decimal is an integer number of tenths        *)
(*    (-200 is -20.0, and 0 is what both 0.0 and -0.0 display as).         *)
(*  - Loop indices are 0-based as in the code; sequences are 1-based, so   *)
(*    row i of a frame is df[i + 1].                                       *)
(***************************************************************************)
EXTENDS Integers, Sequences, FiniteSets, TLC

\* ------------------------------------------------------------------------
\* Values

None == <<>>

Some(v) == <<v>>

IsNone(o) == o = <<>>

Get(o) == o[1]

MinOf(S) == CHOOSE x \in S : \A y \in S : x <= y

MaxOf(S) == CHOOSE x \in S : \A y \in S : x >= y

\* Nearest integer to num / den (den > 0), a tie going to the even neighbour.
RoundHalfEven(num, den) ==
    LET q == (2 * num + den) \div (2 * den)
    IN  IF (2 * num + den) % (2 * den) = 0 /\ q % 2 # 0 THEN q - 1 ELSE q

\* round(x, 1) of x = num / den, in tenths.
RoundTenths(num, den) == RoundHalfEven(10 * num, den)

\* ------------------------------------------------------------------------
\* Calendar (proleptic Gregorian, as pandas keeps it)

\* Day ordinal of the civil date y-m-d.
DaysFromCivil(y, m, d) ==
    LET yy  == IF m <= 2 THEN y - 1 ELSE y
        era == yy \div 400
        yoe == yy - era * 400
        mp  == IF m > 2 THEN m - 3 ELSE m + 9
        doy == (153 * mp + 2) \div 5 + d - 1
        doe == yoe * 365 + yoe \div 4 - yoe \div 100 + doy
    IN  era * 146097 + doe - 719468

\* Civil date <<y, m, d>> of a day ordinal: Timestamp.strftime("%Y-%m-%d").
Strftime(z) ==
    LET zz  == z + 719468
        era == zz \div 146097
        doe == zz - era * 146097
        yoe == (doe - doe \div 1460 + doe \div 36524 - doe \div 146096) \div 365
        doy == doe - (365 * yoe + yoe \div 4 - yoe \div 100)
        mp  == (5 * doy + 2) \div 153
        d   == doy - (153 * mp + 2) \div 5 + 1
        m   == IF mp < 10 THEN mp + 3 ELSE mp - 9
        y   == yoe + era * 400
    IN  <<IF m <= 2 THEN y + 1 ELSE y, m, d>>

\* Order of two "%Y-%m-%d" texts.
DateStrLeq(a, b) ==
    \/ a[1] < b[1]
    \/ a[1] = b[1] /\ a[2] < b[2]
    \/ a[1] = b[1] /\ a[2] = b[2] /\ a[3] <= b[3]

\* ------------------------------------------------------------------------
\* Inputs: what _fetch_sp500_daily_from_1950 may hand to the analytics

\* len(daily) < 10 makes both drawdown functions give up.
MinScanLen == 10

\* head(15) of the ranked table.
TopN == 15

\* The longest frame the default sort (numpy's introsort) orders by insertion,
\* which keeps rows of equal key in the order given: 17 rows.
SmallSort == 16

\* Longest free tail of an enumerated series.
MaxTail == 4

\* Closes a free tail is drawn from: from 100 they are drops of exactly
\* 30, 20, 10 and 5 percent; from 95 and 90 they fall inside the buckets.
Prices == {70, 80, 90, 95, 100}

\* Days between consecutive rows of the lead-in and of the tail: a series of
\* consecutive days (under a year in all), and one spanning more than a year.
Gaps == {<<1, 1>>, <<46, 3>>}

StartDay == DaysFromCivil(2020, 1, 2)

Row(d, c) == [Date |-> d, Close |-> c]

\* A rising lead-in of MinScanLen - 1 rows (50, 55, .. 90) so that a tail of
\* n rows gives a frame of MinScanLen - 1 + n rows.
PadLen == MinScanLen - 1

PadClose(k) == 45 + 5 * k

EnumSeries(tail, padGap, tailGap) ==
    [k \in 1..(PadLen + Len(tail)) |->
        IF k <= PadLen
        THEN Row(StartDay + (k - 1) * padGap, PadClose(k))
        ELSE Row(StartDay + (PadLen - 1) * padGap + (k - PadLen) * tailGap,
                 tail[k - PadLen])]

Tails == UNION {[1..n -> Prices] : n \in 0..MaxTail}

\* Rows on consecutive days from day0 with the given closes.
DailyRows(day0, closes) == [k \in 1..Len(closes) |-> Row(day0 + k - 1, closes[k])]

\* The scenario of the specification, days 0..6 (seven rows: below MinScanLen).
Scenario7 == DailyRows(StartDay, <<100, 90, 80, 85, 95, 100, 110>>)

\* The same scenario continued upwards to ten rows.
Scenario10 ==
    DailyRows(StartDay, <<100, 90, 80, 85, 95, 100, 110, 120, 130, 140>>)

\* Scenario10 handed over in descending date order.
ScenarioUnsorted == [k \in 1..10 |-> Scenario10[11 - k]]

\* A dip of 0.025 percent, and a higher high at the end.
ScenarioTinyDip ==
    DailyRows(StartDay,
              <<50, 55, 60, 65, 70, 75, 80, 4000, 3999, 4000, 3000, 4001>>)

\* Three rows of the provider carrying the same date (rows 4 to 6): two rows
\* of a dip and the recovery.
ScenarioDupDate ==
    [k \in 1..12 |->
        Row(StartDay + (IF k <= 4 THEN k ELSE IF k <= 6 THEN 4 ELSE k - 2),
            <<50, 100, 90, 80, 70, 100, 95, 110, 105, 104, 120, 90>>[k])]

\* Eighteen completed episodes from a peak of 100, the trough 91 twice
\* (episodes 9 and 16).
SawTroughs ==
    <<75, 99, 96, 89, 97, 90, 94, 98, 91, 92, 88, 60, 93, 86, 85, 91, 95, 70>>

ScenarioSaw ==
    DailyRows(StartDay,
              [k \in 1..(2 * Len(SawTroughs) + 1) |->
                  IF k % 2 = 1 THEN 100 ELSE SawTroughs[k \div 2]])

\* More than a year after its first row, four completed episodes on
\* consecutive days: two of -10% that recover in 1 and in 2 days, one of -2%
\* and one of -20%.
ScenarioUnevenRecovery ==
    <<Row(StartDay, 100)>>
    \o DailyRows(StartDay + 400, <<90, 100, 90, 95, 100, 98, 100, 80, 110, 120>>)

Scenarios ==
    {Scenario7, Scenario10, ScenarioUnsorted, ScenarioTinyDip,
     ScenarioDupDate, ScenarioSaw, ScenarioUnevenRecovery}

DailyInputs ==
    {None}
    \cup {Some(s) : s \in Scenarios}
    \cup {Some(EnumSeries(t, g[1], g[2])) : t \in Tails, g \in Gaps}

\* ------------------------------------------------------------------------
\* State

VARIABLES
    daily,          \* the cached result of _fetch_sp500_daily_from_1950
    pc,             \* where the page script is
    df,             \* the running function's frame, sorted by date
    i,              \* the scan index of the running drawdown loop
    periods,        \* the episodes the running loop has appended
    mdd_table,      \* _build_top15_drawdowns_table()
    all_periods,    \* _get_all_drawdown_periods()[0]
    total_years,    \* _get_all_drawdown_periods()[1]
    freq_drops_df,  \* _frequency_of_drops_table()
    q_close,        \* the quarter-end closes: Series of (quarter end, close)
    q_ret,          \* the quarterly returns: Series of (quarter end, return)
    worst,          \* the worst quarters: Series of (quarter end, return)
    rows,           \* the forward-return rows appended so far
    last,           \* the last anchor's locals: qdate, p0 and the five prices
    dd_table,       \* _build_drawdown_forward_table()
    win_df,         \* _rolling_win_rate_table()
    hist,           \* ticker.history(...): the provider's rows
    ret,            \* the daily returns of _cost_of_missing_best_days
    r_missed,       \* r of the last missed_top_n: the copy of ret it changed
    cost_df,        \* _cost_of_missing_best_days()
    sp500_history,  \* _fetch_sp500_history(): df of the page script
    now_et_dt,      \* get_1day_data: the day of datetime.now(et)
    hists,          \* get_1day_data: the provider's answers, one per ticker
    tickers_ok,     \* get_1day_data: the tickers appended
    chg_pct,        \* get_1day_data: the day-over-day changes appended
    this_month_pct, \* get_1day_data: the month-to-date returns appended
    last_month_pct, \* get_1day_data: the prior-month returns appended
    df_1d,          \* get_1day_data()
    top15_periods,  \* periods of _build_top15_drawdowns_table when its loop
                    \* was last left
    weekly_signal_gemini_cache, \* _weekly_signal_gemini_cache
    last_file,      \* the content of _WEEKLY_SIGNAL_LAST_FILE
    default_file,   \* the content of _WEEKLY_SIGNAL_DEFAULT_FILE
    now_ts,         \* time.time(), in days
    weekly_ret,     \* what get_weekly_signal_gemini_table returned last
    fear_greed,     \* the arguments of get_market_condition
    disparity_pct,
    breadth_pct,
    condition       \* what get_market_condition returned

vars ==
    <<daily, pc, df, i, periods, mdd_table, all_periods, total_years,
      freq_drops_df, q_close, q_ret, worst, rows, last, dd_table, win_df,
      hist, ret, r_missed, cost_df, sp500_history, now_et_dt, hists,
      tickers_ok, chg_pct, this_month_pct, last_month_pct, df_1d,
      top15_periods, weekly_signal_gemini_cache, last_file, default_file,
      now_ts, weekly_ret, fear_greed, disparity_pct, breadth_pct, condition>>

\* What the drawdown functions leave alone, and what the forward-return
\* function leaves alone.
fwdVars == <<q_close, q_ret, worst, rows, last, dd_table>>

scanVars ==
    <<periods, mdd_table, all_periods, total_years, freq_drops_df,
      top15_periods>>

\* The state of the fetch with fallback and of the home page's table.
appVars ==
    <<sp500_history, now_et_dt, hists, tickers_ok, chg_pct, this_month_pct,
      last_month_pct, df_1d>>

\* The state of the home page's Weekly Signal and market condition.
homeVars ==
    <<weekly_signal_gemini_cache, last_file, default_file, now_ts, weekly_ret,
      fear_greed, disparity_pct, breadth_pct, condition>>

\* The results of the page's other sections.
pageVars == <<win_df, hist, ret, r_missed, cost_df, appVars, homeVars>>

\* ------------------------------------------------------------------------
\* pandas primitives on the running frame

\* daily.set_index("Date").sort_index(): ascending by date, rows of one date
\* in the order given.
SortIndex(s) ==
    LET Rank(k) ==
            Cardinality({m \in 1..Len(s) :
                \/ s[m].Date < s[k].Date
                \/ s[m].Date = s[k].Date /\ m < k}) + 1
    IN  IF \A k \in 1..(Len(s) - 1) : s[k].Date <= s[k + 1].Date THEN s
        ELSE [r \in 1..Len(s) |-> s[CHOOSE k \in 1..Len(s) : Rank(k) = r]]

\* df["Close"].iloc[k] and df.index[k]
CloseAt(k) == df[k + 1].Close

IndexAt(k) == df[k + 1].Date

\* Mutant of RunningMax: the column holds the close itself, no running maximum.
RunningMaxIsClose(k) == CloseAt(k)

\* df["RunningMax"].iloc[k]: close.cummax()
RunningMax(k) == MaxOf({df[m].Close : m \in 1..(k + 1)})

\* len(df.iloc[k + 1:])
WindowLen(k) == Len(df) - (k + 1)

\* Mutant of FirstRecovery: a close equal to the peak's does not end the loop
\* (window close <= from_price).
FirstRecoveryStrict(k) ==
    LET n == Len(df) - (k + 1)
        S == {j \in 0..(n - 1) : CloseAt(k + 1 + j) > CloseAt(k)}
    IN  IF S = {} THEN n ELSE MinOf(S)

\* Mutant of FirstRecovery: the comparison reversed (window close >=
\* from_price keeps the loop going).
FirstRecoveryReversed(k) ==
    LET n == Len(df) - (k + 1)
        S == {j \in 0..(n - 1) : CloseAt(k + 1 + j) < CloseAt(k)}
    IN  IF S = {} THEN n ELSE MinOf(S)

\* Mutant of FirstRecovery: the inner loop starts at the second row of the
\* window (j = 1).
FirstRecoveryFromSecond(k) ==
    LET n == Len(df) - (k + 1)
        S == {j \in 1..(n - 1) : CloseAt(k + 1 + j) >= CloseAt(k)}
    IN  IF S = {} THEN n ELSE MinOf(S)

\* The inner while loop: the number of leading rows of the window whose close
\* is below the peak's.
FirstRecovery(k) ==
    LET n == WindowLen(k)
        S == {j \in 0..(n - 1) : CloseAt(k + 1 + j) >= CloseAt(k)}
    IN  IF S = {} THEN n ELSE MinOf(S)

\* Mutant of IdxMin: the last row holding the minimum.
IdxMinLast(k, j) ==
    LET lo == MinOf({CloseAt(m) : m \in (k + 1)..(k + j)})
    IN  MaxOf({m \in (k + 1)..(k + j) : CloseAt(m) = lo})

\* Position in df of sub["Close"].idxmin() for sub = window.iloc[:j]: the
\* first row holding the minimum.
IdxMin(k, j) ==
    LET lo == MinOf({CloseAt(m) : m \in (k + 1)..(k + j)})
    IN  MinOf({m \in (k + 1)..(k + j) : CloseAt(m) = lo})

\* Mutant of GetLoc: the position inside the window (j) taken for the
\* position in df.
GetLocInWindow(label) ==
    MinOf({m \in 0..(Len(df) - 1) : IndexAt(m) = label}) - (i + 1)

\* Mutant of GetLoc: the scan goes on from the row after the recovery row.
GetLocNext(label) == MinOf({m \in 0..(Len(df) - 1) : IndexAt(m) = label}) + 1

\* df.index.get_loc(label), and .start when it is a slice: the first position
\* carrying the label.
GetLoc(label) == MinOf({m \in 0..(Len(df) - 1) : IndexAt(m) = label})

\* ------------------------------------------------------------------------
\* _build_top15_drawdowns_table

\* The row is below the high-water mark: not a peak.
BelowMax(k) == CloseAt(k) < RunningMax(k)

\* Mutant of DepthPct: the drop divided by the trough price.
DepthPctOverTrough(trough_price, from_price) ==
    <<(trough_price - from_price) * 100, trough_price>>

\* (trough_price - from_price) / from_price * 100.0, exact.
DepthPct(trough_price, from_price) ==
    <<(trough_price - from_price) * 100, from_price>>

\* The dict appended for the peak at row k whose window has j rows below it.
Top15Period(k, j) ==
    LET from_date    == IndexAt(k)
        from_price   == CloseAt(k)
        trough_date  == IndexAt(IdxMin(k, j))
        trough_price == MinOf({CloseAt(m) : m \in (k + 1)..(k + j)})
        depth_pct    == DepthPct(trough_price, from_price)
        recovered    == j < WindowLen(k)
        recovery_date == IndexAt(k + 1 + j)
    IN  [From     |-> Strftime(from_date),
         Trough   |-> Strftime(trough_date),
         To       |-> IF recovered THEN Some(Strftime(recovery_date)) ELSE None,
         Depth    |-> RoundTenths(depth_pct[1], depth_pct[2]),
         Length   |-> IF recovered THEN Some(recovery_date - from_date) ELSE None,
         ToTrough |-> trough_date - from_date,
         Recovery |-> IF recovered THEN Some(recovery_date - trough_date) ELSE None]

\* Every order sort_values("Depth (%)") may leave the rows in: ascending by
\* depth.  The default kind is quicksort, which is not stable: rows of equal
\* depth keep the order given in a frame short enough to be sorted by
\* insertion, and come in any order in a longer one.
RECURSIVE SortValues(_, _)
SortValues(frame, left) ==
    IF left = {} THEN {<<>>}
    ELSE LET lo    == MinOf({frame[k].Depth : k \in left})
             ties  == {k \in left : frame[k].Depth = lo}
             first == IF Len(frame) - 1 > SmallSort THEN ties ELSE {MinOf(ties)}
         IN  UNION {{<<frame[k]>> \o rest : rest \in SortValues(frame, left \ {k})} :
                    k \in first}

\* .head(n)
HeadRows(frame, n) == SubSeq(frame, 1, IF Len(frame) < n THEN Len(frame) ELSE n)

\* What the function may return once the loop has left ps: None for no
\* episode, else the ranked rows cut to TopN.
Top15Return(ps) ==
    IF ps = <<>> THEN {None}
    ELSE {Some(HeadRows(r, TopN)) : r \in SortValues(ps, 1..Len(ps))}

\* The loop is left (break, or the while condition failing) and the function
\* returns.
Top15Leave(ps) ==
    /\ periods' = ps
    /\ mdd_table' \in Top15Return(ps)
    /\ top15_periods' = Some(ps)
    /\ pc' = "freq"
    /\ UNCHANGED <<fwdVars, pageVars>>
    /\ UNCHANGED <<daily, df, i, all_periods, total_years, freq_drops_df>>

\* daily is None or too short: return None.
Top15Unavailable ==
    /\ pc = "top15"
    /\ (IF IsNone(daily) THEN TRUE ELSE Len(Get(daily)) < MinScanLen)
    /\ mdd_table' = None
    /\ pc' = "freq"
    /\ UNCHANGED <<fwdVars, pageVars>>
    /\ UNCHANGED <<daily, df, i, periods, all_periods, total_years,
                   freq_drops_df, top15_periods>>

\* The loop entered with one row fewer than the guard asks for.
Top15BeginShort ==
    /\ pc = "top15"
    /\ ~IsNone(daily)
    /\ Len(Get(daily)) >= MinScanLen - 1
    /\ df' = SortIndex(Get(daily))
    /\ i' = 0
    /\ periods' = <<>>
    /\ pc' = "top15_loop"
    /\ UNCHANGED <<fwdVars, pageVars>>
    /\ UNCHANGED <<daily, mdd_table, all_periods, total_years, freq_drops_df,
                   top15_periods>>

\* The loop entered with the list the call before has left.
Top15BeginKeepsPeriods ==
    /\ pc = "top15"
    /\ ~IsNone(daily)
    /\ Len(Get(daily)) >= MinScanLen
    /\ df' = SortIndex(Get(daily))
    /\ i' = 0
    /\ periods' = periods
    /\ pc' = "top15_loop"
    /\ UNCHANGED <<fwdVars, pageVars>>
    /\ UNCHANGED <<daily, mdd_table, all_periods, total_years, freq_drops_df,
                   top15_periods>>

\* Sort the frame and enter the loop with i = 0.
Top15Begin ==
    /\ pc = "top15"
    /\ ~IsNone(daily)
    /\ Len(Get(daily)) >= MinScanLen
    /\ df' = SortIndex(Get(daily))
    /\ i' = 0
    /\ periods' = <<>>
    /\ pc' = "top15_loop"
    /\ UNCHANGED <<fwdVars, pageVars>>
    /\ UNCHANGED <<daily, mdd_table, all_periods, total_years, freq_drops_df,
                   top15_periods>>

\* Row i is below the running maximum: i += 1; continue.
Top15SkipBelowMax ==
    /\ pc = "top15_loop"
    /\ i < Len(df)
    /\ BelowMax(i)
    /\ i' = i + 1
    /\ UNCHANGED <<fwdVars, pageVars>>
    /\ UNCHANGED <<daily, pc, df, periods, mdd_table, all_periods,
                   total_years, freq_drops_df, top15_periods>>

\* The peak's next row is not below it (j == 0): i += 1; continue.
Top15SkipNoDecline ==
    /\ pc = "top15_loop"
    /\ i < Len(df)
    /\ ~BelowMax(i)
    /\ WindowLen(i) > 0
    /\ FirstRecovery(i) = 0
    /\ i' = i + 1
    /\ UNCHANGED <<fwdVars, pageVars>>
    /\ UNCHANGED <<daily, pc, df, periods, mdd_table, all_periods,
                   total_years, freq_drops_df, top15_periods>>

\* The while condition fails, or the peak is the last row (empty window: break).
Top15NoWindow ==
    /\ pc = "top15_loop"
    /\ (IF i >= Len(df) THEN TRUE ELSE ~BelowMax(i) /\ WindowLen(i) = 0)
    /\ Top15Leave(periods)

\* An episode that recovers at window row j: append it and move i to the
\* recovery row.
Top15Recovered ==
    /\ pc = "top15_loop"
    /\ i < Len(df)
    /\ ~BelowMax(i)
    /\ WindowLen(i) > 0
    /\ LET j == FirstRecovery(i)
       IN  /\ 0 < j
           /\ j < WindowLen(i)
           /\ periods' = Append(periods, Top15Period(i, j))
           /\ i' = GetLoc(IndexAt(i + 1 + j))
    /\ UNCHANGED <<fwdVars, pageVars>>
    /\ UNCHANGED <<daily, pc, df, mdd_table, all_periods, total_years,
                   freq_drops_df, top15_periods>>

\* An episode still open at the end of the series: append it and break.
Top15NotRecovered ==
    /\ pc = "top15_loop"
    /\ i < Len(df)
    /\ ~BelowMax(i)
    /\ WindowLen(i) > 0
    /\ LET j == FirstRecovery(i)
       IN  /\ 0 < j
           /\ j = WindowLen(i)
           /\ Top15Leave(Append(periods, Top15Period(i, j)))

\* ------------------------------------------------------------------------
\* _frequency_of_drops_table

\* depth <= bound and bound < depth, for depth = <<num, den>>.
DepthLeq(depth, bound) == depth[1] <= bound * depth[2]

DepthGt(depth, bound) == depth[1] > bound * depth[2]

\* Mutant of BucketExclusive: each range closed at its shallow end and open
\* at its deep end (-10 <= d < -5, -20 <= d < -10).
BucketExclusiveDeepOpen(row) ==
    IF row.Depth[1] >= -10 * row.Depth[2] /\ row.Depth[1] < -5 * row.Depth[2]
    THEN Some("-5% to -10% (Pullback)")
    ELSE IF row.Depth[1] >= -20 * row.Depth[2] /\ row.Depth[1] < -10 * row.Depth[2]
    THEN Some("-10% to -20% (Correction)")
    ELSE None

\* bucket_exclusive(row)
BucketExclusive(row) ==
    IF DepthGt(row.Depth, -10) /\ DepthLeq(row.Depth, -5)
    THEN Some("-5% to -10% (Pullback)")
    ELSE IF DepthGt(row.Depth, -20) /\ DepthLeq(row.Depth, -10)
    THEN Some("-10% to -20% (Correction)")
    ELSE None

RECURSIVE SumDays(_)
SumDays(frame) ==
    IF frame = <<>> THEN 0 ELSE Get(Head(frame).Recovery) + SumDays(Tail(frame))

\* The Frequency text of a bucket of n > 0 events over years = <<num, den>>:
\* "Once every X.X years" when years / n >= 1, else "X.X times per year".
FrequencyStr(years, n) ==
    IF years[1] >= years[2] * n
    THEN [once_every |-> TRUE, tenths |-> RoundTenths(years[1], years[2] * n)]
    ELSE [once_every |-> FALSE, tenths |-> RoundTenths(years[2] * n, years[1])]

\* Mutant of BucketRow: the recovery days averaged over all the members, an
\* open episode counting 0 days.
BucketRowMeanOverAll(label, sub, years) ==
    LET n         == Len(sub)
        IsRec(r)  == ~IsNone(r.Recovery)
        recovered == SelectSeq(sub, IsRec)
    IN  [DepthRange  |-> label,
         TotalEvents |-> n,
         Frequency   |-> IF n = 0 THEN None ELSE Some(FrequencyStr(years, n)),
         AvgRecovery |->
            IF n = 0 THEN None
            ELSE Some(RoundHalfEven(SumDays(recovered), n))]

\* Mutant of BucketRow: a bucket without events shows 0 days of recovery.
BucketRowZeroFilled(label, sub, years) ==
    LET n         == Len(sub)
        IsRec(r)  == ~IsNone(r.Recovery)
        recovered == SelectSeq(sub, IsRec)
    IN  [DepthRange  |-> label,
         TotalEvents |-> n,
         Frequency   |-> IF n = 0 THEN None ELSE Some(FrequencyStr(years, n)),
         AvgRecovery |->
            IF Len(recovered) = 0 THEN Some(0)
            ELSE Some(RoundHalfEven(SumDays(recovered), Len(recovered)))]

\* One row of the table for the bucket whose members are sub.
BucketRow(label, sub, years) ==
    LET n         == Len(sub)
        IsRec(r)  == ~IsNone(r.Recovery)
        recovered == SelectSeq(sub, IsRec)
    IN  [DepthRange  |-> label,
         TotalEvents |-> n,
         Frequency   |-> IF n = 0 THEN None ELSE Some(FrequencyStr(years, n)),
         AvgRecovery |->
            IF n = 0 \/ Len(recovered) = 0 THEN None
            ELSE Some(RoundHalfEven(SumDays(recovered), Len(recovered)))]

\* Mutant of AtOrBelow: the boundary left out (depth < threshold).
AtOrBelowStrict(frame, threshold) ==
    LET Is(r) == r.Depth[1] < threshold * r.Depth[2]
    IN  SelectSeq(frame, Is)

\* df[df["Depth (%)"] <= threshold]
AtOrBelow(frame, threshold) ==
    LET Is(r) == DepthLeq(r.Depth, threshold)
    IN  SelectSeq(frame, Is)

\* The table built from what _get_all_drawdown_periods returned.
FrequencyOfDrops(periods_df, years) ==
    IF IsNone(periods_df) \/ IsNone(years) THEN None
    ELSE IF Get(years)[1] < Get(years)[2] THEN None
    ELSE LET frame == AtOrBelow(Get(periods_df), -5)
             InBucket(label) ==
                LET Is(r) == BucketExclusive(r) = Some(label)
                IN  SelectSeq(frame, Is)
             Below(threshold) == AtOrBelow(frame, threshold)
         IN  IF frame = <<>> THEN None
             ELSE Some(<<
                BucketRow("-5% to -10% (Pullback)",
                          InBucket("-5% to -10% (Pullback)"), Get(years)),
                BucketRow("-10% to -20% (Correction)",
                          InBucket("-10% to -20% (Correction)"), Get(years)),
                BucketRow("-20% or more (Bear Market)", Below(-20), Get(years)),
                BucketRow("-30% or more (Crash)", Below(-30), Get(years))>>)

\* ------------------------------------------------------------------------
\* _get_all_drawdown_periods, called by _frequency_of_drops_table

\* Mutant of AllPeriod: the recovery counted from the peak.
AllPeriodFromPeak(k, j) ==
    LET from_price   == CloseAt(k)
        trough_price == MinOf({CloseAt(m) : m \in (k + 1)..(k + j)})
    IN  [Depth    |-> DepthPct(trough_price, from_price),
         Recovery |-> IF j < WindowLen(k)
                      THEN Some(IndexAt(k + 1 + j) - IndexAt(k)) ELSE None]

\* The dict appended for the peak at row k whose window has j rows below it.
AllPeriod(k, j) ==
    LET from_price   == CloseAt(k)
        trough_date  == IndexAt(IdxMin(k, j))
        trough_price == MinOf({CloseAt(m) : m \in (k + 1)..(k + j)})
        recovery_date == IndexAt(k + 1 + j)
    IN  [Depth    |-> DepthPct(trough_price, from_price),
         Recovery |-> IF j < WindowLen(k)
                      THEN Some(recovery_date - trough_date) ELSE None]

\* (df.index[-1] - df.index[0]).days / 365.25, exact.
TotalYears == <<4 * (IndexAt(Len(df) - 1) - IndexAt(0)), 1461>>

\* The loop is left with ps: _get_all_drawdown_periods returns, and
\* _frequency_of_drops_table builds its table from what it returned.
AllLeave(ps) ==
    /\ periods' = ps
    /\ all_periods' = (IF ps = <<>> THEN None ELSE Some(ps))
    /\ total_years' = (IF ps = <<>> THEN None ELSE Some(TotalYears))
    /\ freq_drops_df' = FrequencyOfDrops(all_periods', total_years')
    /\ pc' = "done"
    /\ UNCHANGED <<fwdVars, pageVars>>
    /\ UNCHANGED <<daily, df, i, mdd_table, top15_periods>>

\* daily is None or too short: (None, None), and the table is None.
AllUnavailable ==
    /\ pc = "freq"
    /\ (IF IsNone(daily) THEN TRUE ELSE Len(Get(daily)) < MinScanLen)
    /\ all_periods' = None
    /\ total_years' = None
    /\ freq_drops_df' = FrequencyOfDrops(None, None)
    /\ pc' = "done"
    /\ UNCHANGED <<fwdVars, pageVars>>
    /\ UNCHANGED <<daily, df, i, periods, mdd_table, top15_periods>>

AllBegin ==
    /\ pc = "freq"
    /\ ~IsNone(daily)
    /\ Len(Get(daily)) >= MinScanLen
    /\ df' = SortIndex(Get(daily))
    /\ i' = 0
    /\ periods' = <<>>
    /\ pc' = "all_loop"
    /\ UNCHANGED <<fwdVars, pageVars>>
    /\ UNCHANGED <<daily, mdd_table, all_periods, total_years, freq_drops_df,
                   top15_periods>>

AllSkipBelowMax ==
    /\ pc = "all_loop"
    /\ i < Len(df)
    /\ BelowMax(i)
    /\ i' = i + 1
    /\ UNCHANGED <<fwdVars, pageVars>>
    /\ UNCHANGED <<daily, pc, df, periods, mdd_table, all_periods,
                   total_years, freq_drops_df, top15_periods>>

AllSkipNoDecline ==
    /\ pc = "all_loop"
    /\ i < Len(df)
    /\ ~BelowMax(i)
    /\ WindowLen(i) > 0
    /\ FirstRecovery(i) = 0
    /\ i' = i + 1
    /\ UNCHANGED <<fwdVars, pageVars>>
    /\ UNCHANGED <<daily, pc, df, periods, mdd_table, all_periods,
                   total_years, freq_drops_df, top15_periods>>

AllNoWindow ==
    /\ pc = "all_loop"
    /\ (IF i >= Len(df) THEN TRUE ELSE ~BelowMax(i) /\ WindowLen(i) = 0)
    /\ AllLeave(periods)

AllRecovered ==
    /\ pc = "all_loop"
    /\ i < Len(df)
    /\ ~BelowMax(i)
    /\ WindowLen(i) > 0
    /\ LET j == FirstRecovery(i)
       IN  /\ 0 < j
           /\ j < WindowLen(i)
           /\ periods' = Append(periods, AllPeriod(i, j))
           /\ i' = GetLoc(IndexAt(i + 1 + j))
    /\ UNCHANGED <<fwdVars, pageVars>>
    /\ UNCHANGED <<daily, pc, df, mdd_table, all_periods, total_years,
                   freq_drops_df, top15_periods>>

AllNotRecovered ==
    /\ pc = "all_loop"
    /\ i < Len(df)
    /\ ~BelowMax(i)
    /\ WindowLen(i) > 0
    /\ LET j == FirstRecovery(i)
       IN  /\ 0 < j
           /\ j = WindowLen(i)
           /\ AllLeave(Append(periods, AllPeriod(i, j)))

\* ------------------------------------------------------------------------
\* _build_drawdown_forward_table

\* len(daily) < 20 makes the function give up.
MinFwdLen == 20

\* nsmallest(15): the worst quarters kept.
WorstN == 15

IsLeap(y) == (y % 4 = 0 /\ y % 100 # 0) \/ y % 400 = 0

DaysInMonth(y, m) ==
    IF m = 2 THEN (IF IsLeap(y) THEN 29 ELSE 28)
    ELSE IF m \in {4, 6, 9, 11} THEN 30 ELSE 31

\* date + pd.DateOffset(months=n): n calendar months later, the day cut to
\* the length of the month reached.  DateOffset(years=n) is 12 n months.
DateOffsetMonths(z, n) ==
    LET c   == Strftime(z)
        t   == c[2] - 1 + n
        y   == c[1] + t \div 12
        m   == (t % 12) + 1
        dim == DaysInMonth(y, m)
    IN  DaysFromCivil(y, m, IF c[3] < dim THEN c[3] ELSE dim)

\* The months of the five horizons: 1 month, 1 quarter, 1, 3 and 5 years.
HorizonMonths == <<1, 3, 12, 36, 60>>

\* The label of the quarter a date falls in: the last day of the quarter.
QuarterEnd(z) ==
    LET c  == Strftime(z)
        qm == ((c[2] - 1) \div 3) * 3 + 3
    IN  DaysFromCivil(c[1], qm, DaysInMonth(c[1], qm))

\* The labels of resample("Q"): every quarter end from q to the last one.
RECURSIVE QuartersFrom(_, _)
QuartersFrom(q, lastq) ==
    IF q > lastq THEN <<>> ELSE <<q>> \o QuartersFrom(QuarterEnd(q + 1), lastq)

QuarterBins(frame) ==
    QuartersFrom(QuarterEnd(frame[1].Date), QuarterEnd(frame[Len(frame)].Date))

\* The function f on 1..n as a sequence.
AsSeq(f, n) == SubSeq(f, 1, n)

\* close.resample("Q").last() at the label q: the close of the last row of
\* the quarter, NaN for a quarter without rows.
QClose(frame, q) ==
    LET S == {k \in 1..Len(frame) : QuarterEnd(frame[k].Date) = q}
    IN  IF S = {} THEN None ELSE Some(frame[MaxOf(S)].Close)

\* close.resample("Q").last(): a Series over the quarter ends.
QCloses(frame) ==
    AsSeq([k \in 1..Len(QuarterBins(frame)) |->
              [qdate |-> QuarterBins(frame)[k],
               close |-> QClose(frame, QuarterBins(frame)[k])]],
          Len(QuarterBins(frame)))

\* q_close.loc[qdate]
QCloseLoc(qdate) ==
    q_close[CHOOSE k \in 1..Len(q_close) : q_close[k].qdate = qdate].close

\* The value pct_change pads position k of a Series with: the last value
\* present at or before k, NaN when there is none.
Padded(series, k) ==
    LET S == {m \in 1..k : ~IsNone(series[m].close)}
    IN  IF S = {} THEN None ELSE series[MaxOf(S)].close

\* q_close.pct_change() * 100.0, exact: at each quarter the change from the
\* quarter before of the padded closes; NaN at the first quarter.
QRet(series) ==
    AsSeq([k \in 1..Len(series) |->
              [qdate |-> series[k].qdate,
               ret   |-> IF k = 1 THEN None
                         ELSE IF IsNone(Padded(series, k))
                                 \/ IsNone(Padded(series, k - 1)) THEN None
                         ELSE Some(<<(Get(Padded(series, k))
                                        - Get(Padded(series, k - 1))) * 100,
                                     Get(Padded(series, k - 1))>>)]],
          Len(series))

\* a < b for two exact quotients.
QuotLess(a, b) == a[1] * b[2] < b[1] * a[2]

\* The quarters of a Series that have a return.
HasReturn(series) == {k \in 1..Len(series) : ~IsNone(series[k].ret)}

\* The place of quarter k among the quarters with a return, by return
\* ascending and of equal returns the earlier first.
Rank(series, k) ==
    Cardinality({m \in HasReturn(series) :
        \/ QuotLess(Get(series[m].ret), Get(series[k].ret))
        \/ ~QuotLess(Get(series[k].ret), Get(series[m].ret)) /\ m < k}) + 1

\* q_ret.nsmallest(15).dropna(): the WorstN quarters of lowest return.
Worst(series) ==
    AsSeq([r \in 1..MinOf({WorstN, Cardinality(HasReturn(series))}) |->
              [qdate |-> series[CHOOSE k \in HasReturn(series) :
                                    Rank(series, k) = r].qdate,
               ret   |-> Get(series[CHOOSE k \in HasReturn(series) :
                                    Rank(series, k) = r].ret)]],
          MinOf({WorstN, Cardinality(HasReturn(series))}))

\* Mutant of FirstCloseOnOrAfter: only a row dated exactly d is found.
FirstCloseOnExactDate(d) ==
    LET later == {k \in 0..(Len(df) - 1) : IndexAt(k) = d}
    IN  IF later = {} THEN None ELSE Some(CloseAt(MinOf(later)))

\* first_close_on_or_after(d): the close of the first row dated d or later,
\* NaN when there is none.
FirstCloseOnOrAfter(d) ==
    LET later == {k \in 0..(Len(df) - 1) : IndexAt(k) >= d}
    IN  IF later = {} THEN None ELSE Some(CloseAt(MinOf(later)))

\* Mutant of ForwardReturn: a missing forward price shown as a return of 0.
ForwardReturnZeroFilled(p, p0) ==
    IF IsNone(p) THEN Some(0)
    ELSE Some(RoundTenths((Get(p) - p0) * 100, p0))

\* round(ret(p), 1) if not np.isnan(p) else np.nan, for
\* ret(p) = (p / p0 - 1.0) * 100.0
ForwardReturn(p, p0) ==
    IF IsNone(p) \/ p0 <= 0 THEN None
    ELSE Some(RoundTenths((Get(p) - p0) * 100, p0))

\* The five forward prices of the anchor qdate.
ForwardPrices(qdate) ==
    [h \in 1..5 |-> FirstCloseOnOrAfter(DateOffsetMonths(qdate, HorizonMonths[h]))]

\* The dict appended for the anchor w of worst: the row's date, the price and
\* the quarter's return rounded to one decimal, and the five forward returns.
ForwardRow(w, p0, p) ==
    [Date    |-> Strftime(w.qdate),
     Price   |-> 10 * p0,
     Drop    |-> Some(RoundTenths(w.ret[1], w.ret[2])),
     Forward |-> [h \in 1..5 |-> ForwardReturn(p[h], p0)]]

RECURSIVE SumSeq(_)
SumSeq(xs) == IF xs = <<>> THEN 0 ELSE Head(xs) + SumSeq(Tail(xs))

\* The present values of a column, in order.
Present(col) ==
    LET Is(v) == ~IsNone(v)
        kept  == SelectSeq(col, Is)
    IN  [k \in 1..Len(kept) |-> Get(kept[k])]

\* Mutant of ColumnMean: a missing value counts as 0 in the mean.
ColumnMeanZeroFilled(col) ==
    Some(RoundHalfEven(SumSeq(Present(col)), Len(col)))

\* round(df[c].mean(), 1): the mean of the present values of a column of
\* tenths, rounded to tenths; NaN for a column without a value.
ColumnMean(col) ==
    IF Present(col) = <<>> THEN None
    ELSE Some(RoundHalfEven(SumSeq(Present(col)), Len(Present(col))))

Average == <<"Average">>

\* The Average row of the frame of rows.
AverageRow(frame) ==
    [Date    |-> Average,
     Price   |-> Get(ColumnMean([k \in 1..Len(frame) |-> Some(frame[k].Price)])),
     Drop    |-> ColumnMean([k \in 1..Len(frame) |-> frame[k].Drop]),
     Forward |-> [h \in 1..5 |->
                    ColumnMean([k \in 1..Len(frame) |-> frame[k].Forward[h]])]]

\* daily is None or too short: return None.
FwdUnavailable ==
    /\ pc = "fwd"
    /\ (IF IsNone(daily) THEN TRUE ELSE Len(Get(daily)) < MinFwdLen)
    /\ dd_table' = None
    /\ pc' = "top15"
    /\ UNCHANGED <<daily, df, i, q_close, q_ret, worst, rows, last>>
    /\ UNCHANGED <<scanVars, pageVars>>

\* No quarter has a return (worst.empty): return None.
FwdNoWorstQuarter ==
    /\ pc = "fwd"
    /\ ~IsNone(daily)
    /\ Len(Get(daily)) >= MinFwdLen
    /\ df' = SortIndex(Get(daily))
    /\ q_close' = QCloses(df')
    /\ q_ret' = QRet(q_close')
    /\ worst' = Worst(q_ret')
    /\ worst' = <<>>
    /\ dd_table' = None
    /\ pc' = "top15"
    /\ UNCHANGED <<daily, i, rows, last>>
    /\ UNCHANGED <<scanVars, pageVars>>

\* Sort the frame, pick the worst quarters and enter the loop over them.
FwdBegin ==
    /\ pc = "fwd"
    /\ ~IsNone(daily)
    /\ Len(Get(daily)) >= MinFwdLen
    /\ df' = SortIndex(Get(daily))
    /\ q_close' = QCloses(df')
    /\ q_ret' = QRet(q_close')
    /\ worst' = Worst(q_ret')
    /\ worst' # <<>>
    /\ i' = 0
    /\ rows' = <<>>
    /\ last' = None
    /\ pc' = "fwd_loop"
    /\ UNCHANGED <<daily, dd_table>>
    /\ UNCHANGED <<scanVars, pageVars>>

\* The anchor's quarter-end close is NaN or not positive: continue.
FwdSkipAnchor ==
    /\ pc = "fwd_loop"
    /\ i < Len(worst)
    /\ LET p0 == QCloseLoc(worst[i + 1].qdate)
       IN  IF IsNone(p0) THEN TRUE ELSE Get(p0) <= 0
    /\ i' = i + 1
    /\ UNCHANGED <<daily, pc, df, q_close, q_ret, worst, rows, last, dd_table>>
    /\ UNCHANGED <<scanVars, pageVars>>

\* Look up the five forward prices of the anchor and append its row.
FwdAppendRow ==
    /\ pc = "fwd_loop"
    /\ i < Len(worst)
    /\ LET w  == worst[i + 1]
           p0 == QCloseLoc(w.qdate)
       IN  /\ ~IsNone(p0)
           /\ Get(p0) > 0
           /\ LET p == ForwardPrices(w.qdate)
              IN  /\ rows' = Append(rows, ForwardRow(w, Get(p0), p))
                  /\ last' = Some([qdate |-> w.qdate, p0 |-> Get(p0), p |-> p])
    /\ i' = i + 1
    /\ UNCHANGED <<daily, pc, df, q_close, q_ret, worst, dd_table>>
    /\ UNCHANGED <<scanVars, pageVars>>

\* The loop is over: None without rows, else the rows and the Average row.
FwdReturn ==
    /\ pc = "fwd_loop"
    /\ i = Len(worst)
    /\ dd_table' = (IF rows = <<>> THEN None
                    ELSE Some(Append(rows, AverageRow(rows))))
    /\ pc' = "top15"
    /\ UNCHANGED <<daily, df, i, q_close, q_ret, worst, rows, last>>
    /\ UNCHANGED <<scanVars, pageVars>>

\* ------------------------------------------------------------------------
\* _rolling_win_rate_table

\* len(daily) < 252 makes the function give up.
MinWinLen == 252

\* periods: the holding periods in trading days, and their labels.
Periods ==
    <<[days |-> 252,  label |-> "1Y"],
      [days |-> 756,  label |-> "3Y"],
      [days |-> 1260, label |-> "5Y"],
      [days |-> 2520, label |-> "10Y"],
      [days |-> 5040, label |-> "20Y"]>>

\* Mutant of IsWin: a window that returns exactly 0 counts as a win.
IsWinOrFlat(cur, prev) ==
    \/ prev > 0 /\ cur >= prev
    \/ prev < 0 /\ cur <= prev

\* cur / prev - 1 > 0, one element of ret > 0.
IsWin(cur, prev) ==
    \/ prev > 0 /\ cur > prev
    \/ prev < 0 /\ cur < prev

\* (ret > 0).sum() for ret = close.pct_change(periods=days).dropna(): the rows
\* from days + 1 on have a return, one per row.
Wins(frame, days) ==
    Cardinality({t \in (days + 1)..Len(frame) :
                    IsWin(frame[t].Close, frame[t - days].Close)})

\* round((ret > 0).mean() * 100.0, 1), in tenths.
WinRate(frame, days) == RoundTenths(100 * Wins(frame, days), Len(frame) - days)

\* rows: one dict for each period the series is longer than.
WinRows(frame) ==
    LET Has(p) == ~(Len(frame) < p.days + 1)
        kept   == SelectSeq(Periods, Has)
    IN  AsSeq([k \in 1..Len(kept) |->
                  [period_label |-> kept[k].label,
                   win_rate     |-> WinRate(frame, kept[k].days)]],
              Len(kept))

\* daily is None or too short: return None.
WinUnavailable ==
    /\ pc = "win"
    /\ (IF IsNone(daily) THEN TRUE ELSE Len(Get(daily)) < MinWinLen)
    /\ win_df' = None
    /\ pc' = "win_done"
    /\ UNCHANGED <<daily, df, i>>
    /\ UNCHANGED <<scanVars, fwdVars, appVars, homeVars, hist, ret, r_missed,
                   cost_df>>

\* No period is shorter than the series (not rows): return None.
WinNoRows ==
    /\ pc = "win"
    /\ ~IsNone(daily)
    /\ Len(Get(daily)) >= MinWinLen
    /\ df' = SortIndex(Get(daily))
    /\ WinRows(df') = <<>>
    /\ win_df' = None
    /\ pc' = "win_done"
    /\ UNCHANGED <<daily, i>>
    /\ UNCHANGED <<scanVars, fwdVars, appVars, homeVars, hist, ret, r_missed,
                   cost_df>>

\* The frame of the rows.
WinReturn ==
    /\ pc = "win"
    /\ ~IsNone(daily)
    /\ Len(Get(daily)) >= MinWinLen
    /\ df' = SortIndex(Get(daily))
    /\ WinRows(df') # <<>>
    /\ win_df' = Some(WinRows(df'))
    /\ pc' = "win_done"
    /\ UNCHANGED <<daily, i>>
    /\ UNCHANGED <<scanVars, fwdVars, appVars, homeVars, hist, ret, r_missed,
                   cost_df>>

\* ------------------------------------------------------------------------
\* _cost_of_missing_best_days (pages/1_Market.py and pages/2_Mind.py)
\*
\* Numbers: a return is the exact quotient <<num, den>>, den > 0.  The closes
\* of the histories are powers of two, so every 1 + r is a power of two and
\* the product of compound is exact in binary floating point; a compounded
\* value is written [initial, exp2] for initial * 2^exp2.

\* len(hist) < 100 and len(ret) < 50 make the function give up.
MinHistLen == 100

MinRetLen == 50

\* initial = 10_000.0
Initial == 10000

\* The scenarios after "Fully Invested": the number of best days missed.
TopCounts == <<10, 20, 30>>

ScenarioLabels ==
    <<"Missed Top 10 Days", "Missed Top 20 Days", "Missed Top 30 Days">>

\* hist["Close"].dropna(): the rows that have a close, with its value.
DropNa(frame) ==
    LET Has(row) == ~IsNone(row.Close)
        kept     == SelectSeq(frame, Has)
    IN  AsSeq([k \in 1..Len(kept) |-> Row(kept[k].Date, Get(kept[k].Close))],
              Len(kept))

\* close.pct_change().dropna(): from the second row on, the change from the
\* row before, labelled with the row's date.
PctChange(close) ==
    AsSeq([k \in 1..(Len(close) - 1) |->
              [Date |-> close[k + 1].Date,
               val  |-> <<close[k + 1].Close - close[k].Close, close[k].Close>>]],
          Len(close) - 1)

\* a < b and a = b for two exact quotients.
QuotEq(a, b) == a[1] * b[2] = b[1] * a[2]

\* The binary logarithm of a power of two.
RECURSIVE Log2(_)
Log2(n) == IF n <= 1 THEN 0 ELSE 1 + Log2(n \div 2)

\* The binary exponent of 1 + v for a return v.
FactorExp(v) == Log2(v[1] + v[2]) - Log2(v[2])

\* The sum of the exponents of the factors 1 + r from row k on.
RECURSIVE ExpFrom(_, _)
ExpFrom(returns_series, k) ==
    IF k > Len(returns_series) THEN 0
    ELSE FactorExp(returns_series[k].val) + ExpFrom(returns_series, k + 1)

\* compound(returns_series): initial * (1 + returns_series).prod()
Compound(returns_series) ==
    [initial |-> Initial, exp2 |-> ExpFrom(returns_series, 1)]

\* The place of row k in r.nlargest: by value descending, of equal values the
\* earlier row first (keep="first").
NLargestRank(returns_series, k) ==
    Cardinality({m \in 1..Len(returns_series) :
        \/ QuotLess(returns_series[k].val, returns_series[m].val)
        \/ QuotEq(returns_series[k].val, returns_series[m].val) /\ m < k}) + 1

\* Mutant of ZeroTop: the rows of the n largest returns are dropped.
DropTop(returns_series, n) ==
    LET Kept(row) == NLargestRank(returns_series, CHOOSE k \in 1..Len(returns_series) :
                                      returns_series[k] = row) > n
    IN  SelectSeq(returns_series, Kept)

\* Mutant of ZeroTop: the n smallest returns are set to 0.
ZeroBottom(returns_series, n) ==
    AsSeq([k \in 1..Len(returns_series) |->
              IF NLargestRank(returns_series, k) > Len(returns_series) - n
              THEN [Date |-> returns_series[k].Date, val |-> <<0, 1>>]
              ELSE returns_series[k]],
          Len(returns_series))

\* r = ret.copy(); r.loc[r.nlargest(n).index] = 0.0: the rows labelled with the
\* dates of the n largest returns are set to 0.  The dates of a history are
\* distinct, so a label is a row.
ZeroTop(returns_series, n) ==
    AsSeq([k \in 1..Len(returns_series) |->
              IF NLargestRank(returns_series, k) <= n
              THEN [Date |-> returns_series[k].Date, val |-> <<0, 1>>]
              ELSE returns_series[k]],
          Len(returns_series))

\* hist is None or has fewer than 100 rows: return None.
CostUnavailable ==
    /\ pc = "cost"
    /\ (IF IsNone(hist) THEN TRUE ELSE Len(Get(hist)) < MinHistLen)
    /\ cost_df' = None
    /\ pc' = "cost_done"
    /\ UNCHANGED <<daily, df, i, hist, ret, r_missed, win_df>>
    /\ UNCHANGED <<scanVars, fwdVars, appVars, homeVars>>

\* Fewer than 50 returns: return None.
CostTooFewReturns ==
    /\ pc = "cost"
    /\ ~IsNone(hist)
    /\ Len(Get(hist)) >= MinHistLen
    /\ ret' = PctChange(DropNa(Get(hist)))
    /\ Len(ret') < MinRetLen
    /\ cost_df' = None
    /\ pc' = "cost_done"
    /\ UNCHANGED <<daily, df, i, hist, r_missed, win_df>>
    /\ UNCHANGED <<scanVars, fwdVars, appVars, homeVars>>

\* The returns, and the value of staying fully invested.
CostFullyInvested ==
    /\ pc = "cost"
    /\ ~IsNone(hist)
    /\ Len(Get(hist)) >= MinHistLen
    /\ ret' = PctChange(DropNa(Get(hist)))
    /\ Len(ret') >= MinRetLen
    /\ rows' = <<[scenario |-> "Fully Invested", final_value |-> Compound(ret')]>>
    /\ i' = 0
    /\ r_missed' = <<>>
    /\ pc' = "cost_missed"
    /\ UNCHANGED <<daily, df, hist, cost_df, win_df>>
    /\ UNCHANGED <<scanVars, appVars, homeVars>>
    /\ UNCHANGED <<q_close, q_ret, worst, last, dd_table>>

\* missed_top_n(n) for the next n of 10, 20, 30.
CostMissedTopN ==
    /\ pc = "cost_missed"
    /\ i < Len(TopCounts)
    /\ r_missed' = ZeroTop(ret, TopCounts[i + 1])
    /\ rows' = Append(rows, [scenario    |-> ScenarioLabels[i + 1],
                             final_value |-> Compound(r_missed')])
    /\ i' = i + 1
    /\ UNCHANGED <<daily, pc, df, hist, ret, cost_df, win_df>>
    /\ UNCHANGED <<scanVars, appVars, homeVars>>
    /\ UNCHANGED <<q_close, q_ret, worst, last, dd_table>>

\* The frame of the four scenarios.
CostReturn ==
    /\ pc = "cost_missed"
    /\ i = Len(TopCounts)
    /\ cost_df' = Some(rows)
    /\ pc' = "cost_done"
    /\ UNCHANGED <<daily, df, i, hist, ret, r_missed, win_df>>
    /\ UNCHANGED <<scanVars, fwdVars, appVars, homeVars>>

\* ------------------------------------------------------------------------
\* The page script: the ranked table, then the frequency table

Init ==
    /\ daily \in DailyInputs
    /\ pc = "top15"
    /\ df = <<>>
    /\ i = 0
    /\ periods = <<>>
    /\ mdd_table = None
    /\ all_periods = None
    /\ total_years = None
    /\ freq_drops_df = None
    /\ q_close = <<>>
    /\ q_ret = <<>>
    /\ worst = <<>>
    /\ rows = <<>>
    /\ last = None
    /\ dd_table = None
    /\ win_df = None
    /\ hist = None
    /\ ret = <<>>
    /\ r_missed = <<>>
    /\ cost_df = None
    /\ sp500_history = None
    /\ now_et_dt = 0
    /\ hists = <<>>
    /\ tickers_ok = <<>>
    /\ chg_pct = <<>>
    /\ this_month_pct = <<>>
    /\ last_month_pct = <<>>
    /\ df_1d = None
    /\ top15_periods = None
    /\ weekly_signal_gemini_cache = <<>>
    /\ last_file = None
    /\ default_file = None
    /\ now_ts = 0
    /\ weekly_ret = None
    /\ fear_greed = 0
    /\ disparity_pct = 0
    /\ breadth_pct = 0
    /\ condition = None

Next ==
    \/ Top15Unavailable
    \/ Top15Begin
    \/ Top15SkipBelowMax
    \/ Top15SkipNoDecline
    \/ Top15NoWindow
    \/ Top15Recovered
    \/ Top15NotRecovered
    \/ AllUnavailable
    \/ AllBegin
    \/ AllSkipBelowMax
    \/ AllSkipNoDecline
    \/ AllNoWindow
    \/ AllRecovered
    \/ AllNotRecovered

Spec == Init /\ [][Next]_vars

\* ------------------------------------------------------------------------
\* Properties of the drawdown scan and its tables

\* periods holds rows of _build_top15_drawdowns_table / of
\* _get_all_drawdown_periods.
HoldsTop15Periods == pc \in {"top15_loop", "freq"}

HoldsAllPeriods == pc \in {"all_loop", "done"}

\* _build_top15_drawdowns_table has returned.
Top15Returned == pc \in {"freq", "all_loop", "done"}

\* C1: the episodes of a scan, in the order appended, do not overlap: each
\* episode but the last has recovered, and the next one's peak date is on or
\* after its recovery date; so at most one episode is unrecovered, the last.
C1_NonOverlap ==
    /\ HoldsTop15Periods =>
          \A k \in 1..(Len(periods) - 1) :
              /\ ~IsNone(periods[k].To)
              /\ DateStrLeq(Get(periods[k].To), periods[k + 1].From)
    /\ HoldsAllPeriods =>
          \A k \in 1..(Len(periods) - 1) : ~IsNone(periods[k].Recovery)

\* A finished scan with a recovered episode followed by an open one.
C1_Witness ==
    /\ pc = "freq"
    /\ Len(periods) >= 2
    /\ IsNone(periods[Len(periods)].To)
    /\ ~IsNone(periods[1].To)

\* C2 as stated: no reported depth is 0, the rounded depth of the ranked
\* table included.
C2_NoZeroDepthShown ==
    /\ HoldsTop15Periods => \A k \in 1..Len(periods) : periods[k].Depth < 0
    /\ (Top15Returned /\ ~IsNone(mdd_table)) =>
          \A k \in 1..Len(Get(mdd_table)) : Get(mdd_table)[k].Depth < 0

\* C2 amended: the depth of every episode is strictly negative before
\* rounding, and the depth shown in the ranked table, rounded to one decimal,
\* is never positive.
C2_DepthSign ==
    /\ HoldsTop15Periods => \A k \in 1..Len(periods) : periods[k].Depth <= 0
    /\ HoldsAllPeriods => \A k \in 1..Len(periods) : periods[k].Depth[1] < 0
    /\ ~IsNone(mdd_table) =>
          \A k \in 1..Len(Get(mdd_table)) : Get(mdd_table)[k].Depth <= 0
    /\ ~IsNone(all_periods) =>
          \A k \in 1..Len(Get(all_periods)) : Get(all_periods)[k].Depth[1] < 0

\* Both tables are out, and the ranked table shows a depth of 0.0 for an
\* episode whose depth is below zero.
C2_Witness ==
    /\ pc = "done"
    /\ ~IsNone(mdd_table)
    /\ ~IsNone(all_periods)
    /\ \E k \in 1..Len(Get(mdd_table)) : Get(mdd_table)[k].Depth = 0

\* C3: every episode starts at a row that is at the high-water mark: a row
\* dated as the episode's peak holds the largest close up to and including
\* itself, and the episode's depth is measured from that close to the close
\* of a later row dated as its trough.
C3_PeakAtRunningMax ==
    HoldsTop15Periods =>
        \A e \in 1..Len(periods) :
            \E k \in 0..(Len(df) - 1) :
                /\ Strftime(IndexAt(k)) = periods[e].From
                /\ \A m \in 0..k : CloseAt(m) <= CloseAt(k)
                /\ \E t \in (k + 1)..(Len(df) - 1) :
                      /\ Strftime(IndexAt(t)) = periods[e].Trough
                      /\ periods[e].Depth =
                            RoundTenths((CloseAt(t) - CloseAt(k)) * 100, CloseAt(k))

\* A scan that passed a row below the high-water mark and then found an
\* episode.
C3_Witness ==
    /\ pc = "top15_loop"
    /\ i > 0
    /\ \E m \in 0..(i - 1) : CloseAt(m) < RunningMax(m)
    /\ Len(periods) >= 2

\* No close of the series handed over is below an earlier one.
NeverFalls(s) ==
    \A a, b \in 1..Len(s) : s[a].Date < s[b].Date => s[a].Close <= s[b].Close

StrictlyRises(s) ==
    \A a, b \in 1..Len(s) : s[a].Date < s[b].Date => s[a].Close < s[b].Close

\* C4: a series in which no close is below an earlier close (a strictly
\* increasing one in particular) gives no episode: both scans end with an
\* empty list and the functions return None.
C4_RisingSeriesNoEpisode ==
    (~IsNone(daily) /\ NeverFalls(Get(daily))) =>
        /\ periods = <<>>
        /\ mdd_table = None
        /\ all_periods = None
        /\ freq_drops_df = None

\* Both scans have run over a strictly increasing series of at least
\* MinScanLen rows.
C4_Witness ==
    /\ pc = "done"
    /\ ~IsNone(daily)
    /\ Len(Get(daily)) >= MinScanLen
    /\ StrictlyRises(Get(daily))
    /\ i > 0

\* The one episode of the scenario: peak day 0, trough day 2, recovery day 5.
ScenarioEpisode ==
    [From     |-> Strftime(StartDay),
     Trough   |-> Strftime(StartDay + 2),
     To       |-> Some(Strftime(StartDay + 5)),
     Depth    |-> -200,
     Length   |-> Some(5),
     ToTrough |-> 2,
     Recovery |-> Some(3)]

\* C5 as stated: the seven-row scenario returns exactly the one episode.
C5_ScenarioSevenRows ==
    (daily = Some(Scenario7) /\ Top15Returned) =>
        mdd_table = Some(<<ScenarioEpisode>>)

\* C5 amended: the seven-row scenario is below the ten-row minimum and
\* returns None; continued by the rising closes 120, 130, 140 on days 7..9
\* (in either row order) it returns exactly the one episode, the rising end
\* giving none.
C5_ScenarioTenRows ==
    /\ (daily = Some(Scenario7) /\ Top15Returned) => mdd_table = None
    /\ (daily \in {Some(Scenario10), Some(ScenarioUnsorted)} /\ Top15Returned) =>
          /\ mdd_table = Some(<<ScenarioEpisode>>)
          /\ HoldsTop15Periods => periods = <<ScenarioEpisode>>

C5_Witness ==
    /\ daily = Some(Scenario10)
    /\ pc = "freq"
    /\ mdd_table # None

\* C6 as stated: the ranked table holds the episodes by depth ascending, cut
\* to the first 15, and of two rows of equal depth the one with the earlier
\* peak date comes first.
C6_RankedTiesByPeakDate ==
    (pc = "freq" /\ ~IsNone(mdd_table)) =>
        LET t == Get(mdd_table)
        IN  /\ Len(t) = (IF Len(periods) < 15 THEN Len(periods) ELSE 15)
            /\ \A k \in 1..Len(t) : \E e \in 1..Len(periods) : t[k] = periods[e]
            /\ \A a, b \in 1..Len(t) :
                  a < b =>
                      /\ t[a].Depth <= t[b].Depth
                      /\ t[a].Depth = t[b].Depth => DateStrLeq(t[a].From, t[b].From)

\* Number of rows of a frame of episodes whose depth is at or below bound.
CountAtOrBelow(frame, bound) ==
    Cardinality({k \in 1..Len(frame) : frame[k].Depth[1] <= bound * frame[k].Depth[2]})

\* C10: in the frequency table the Bear Market row counts every episode of
\* depth <= -20% and the Crash row every episode of depth <= -30%, so the
\* Bear Market count is at least the Crash count.
C10_BearCountsCrash ==
    (pc = "done" /\ ~IsNone(freq_drops_df)) =>
        LET t == Get(freq_drops_df)
        IN  /\ t[3].DepthRange = "-20% or more (Bear Market)"
            /\ t[4].DepthRange = "-30% or more (Crash)"
            /\ t[3].TotalEvents = CountAtOrBelow(Get(all_periods), -20)
            /\ t[4].TotalEvents = CountAtOrBelow(Get(all_periods), -30)
            /\ t[3].TotalEvents >= t[4].TotalEvents

\* A table counting a crash and a bear market that is no crash.
C10_Witness ==
    /\ pc = "done"
    /\ ~IsNone(freq_drops_df)
    /\ Get(freq_drops_df)[4].TotalEvents >= 1
    /\ Get(freq_drops_df)[3].TotalEvents > Get(freq_drops_df)[4].TotalEvents

\* The table of _frequency_of_drops_table has been returned, and it is one.
FreqTableShown == pc = "done" /\ ~IsNone(freq_drops_df)

\* The episodes of all_periods of depth d <= hi percent, and those of them
\* with lo < d.
DepthAtOrBelow(hi) ==
    {k \in 1..Len(Get(all_periods)) :
        Get(all_periods)[k].Depth[1] <= hi * Get(all_periods)[k].Depth[2]}

DepthWithin(lo, hi) ==
    {k \in DepthAtOrBelow(hi) :
        lo * Get(all_periods)[k].Depth[2] < Get(all_periods)[k].Depth[1]}

\* The episodes of each of the four buckets, in the order of the table.
BucketMembers ==
    <<DepthWithin(-10, -5), DepthWithin(-20, -10),
      DepthAtOrBelow(-20), DepthAtOrBelow(-30)>>

\* C11: the table classifies only the episodes of depth <= -5%, each into
\* exactly one of Pullback (-10 < d <= -5), Correction (-20 < d <= -10) and
\* Bear Market (d <= -20): the three counts are the sizes of these ranges and
\* sum to the number of episodes of depth <= -5%, so that -10% exactly is a
\* Correction and -20% exactly a Bear Market.
C11_ExclusivePartition ==
    FreqTableShown =>
        LET t == Get(freq_drops_df)
        IN  /\ t[1].TotalEvents = Cardinality(DepthWithin(-10, -5))
            /\ t[2].TotalEvents = Cardinality(DepthWithin(-20, -10))
            /\ t[3].TotalEvents = Cardinality(DepthAtOrBelow(-20))
            /\ t[1].TotalEvents + t[2].TotalEvents + t[3].TotalEvents
                   = Cardinality(DepthAtOrBelow(-5))

\* A table over an episode of exactly -10%, one of exactly -20% and one
\* shallower than -5%.
C11_Witness ==
    /\ FreqTableShown
    /\ \E a, b, c \in 1..Len(Get(all_periods)) :
           /\ Get(all_periods)[a].Depth[1] = -10 * Get(all_periods)[a].Depth[2]
           /\ Get(all_periods)[b].Depth[1] = -20 * Get(all_periods)[b].Depth[2]
           /\ Get(all_periods)[c].Depth[1] > -5 * Get(all_periods)[c].Depth[2]

\* The recovered episodes of a set of episodes, and the sum of their days.
RecoveredOf(S) == {k \in S : ~IsNone(Get(all_periods)[k].Recovery)}

RECURSIVE RecoverySum(_)
RecoverySum(S) ==
    IF S = {} THEN 0
    ELSE LET k == CHOOSE x \in S : TRUE
         IN  Get(Get(all_periods)[k].Recovery) + RecoverySum(S \ {k})

\* C12 as stated: the count of a bucket includes its open episodes, and its
\* average recovery is the mean of the recovery days of its recovered
\* episodes, not applicable when it has none.
C12_AvgRecoveryIsExactMean ==
    FreqTableShown =>
        \A b \in 1..4 :
            LET row == Get(freq_drops_df)[b]
                rec == RecoveredOf(BucketMembers[b])
            IN  /\ row.TotalEvents = Cardinality(BucketMembers[b])
                /\ IF rec = {} THEN IsNone(row.AvgRecovery)
                   ELSE /\ ~IsNone(row.AvgRecovery)
                        /\ Get(row.AvgRecovery) * Cardinality(rec) = RecoverySum(rec)

\* C12: the count of a bucket includes its open episodes; its average
\* recovery is the mean of the recovery days of its recovered episodes only,
\* rounded to a whole number of days, and not applicable when none of its
\* episodes has recovered.
C12_AvgRecoveryIsRoundedMean ==
    FreqTableShown =>
        \A b \in 1..4 :
            LET row == Get(freq_drops_df)[b]
                rec == RecoveredOf(BucketMembers[b])
            IN  /\ row.TotalEvents = Cardinality(BucketMembers[b])
                /\ IF rec = {} THEN IsNone(row.AvgRecovery)
                   ELSE /\ ~IsNone(row.AvgRecovery)
                        /\ 2 * Get(row.AvgRecovery) * Cardinality(rec)
                               <= 2 * RecoverySum(rec) + Cardinality(rec)
                        /\ 2 * Get(row.AvgRecovery) * Cardinality(rec)
                               >= 2 * RecoverySum(rec) - Cardinality(rec)

\* A bucket holding a recovered and the open episode, and a bucket holding
\* the open episode alone.
C12_Witness ==
    /\ FreqTableShown
    /\ \E b, c \in 1..4 :
           /\ RecoveredOf(BucketMembers[b]) # {}
           /\ RecoveredOf(BucketMembers[b]) # BucketMembers[b]
           /\ BucketMembers[c] # {}
           /\ RecoveredOf(BucketMembers[c]) = {}
           /\ IsNone(Get(freq_drops_df)[c].AvgRecovery)

\* The four rows in their order, a row without events showing neither a
\* frequency nor an average recovery.
FourBuckets ==
    LET t == Get(freq_drops_df)
    IN  /\ Len(t) = 4
        /\ t[1].DepthRange = "-5% to -10% (Pullback)"
        /\ t[2].DepthRange = "-10% to -20% (Correction)"
        /\ t[3].DepthRange = "-20% or more (Bear Market)"
        /\ t[4].DepthRange = "-30% or more (Crash)"
        /\ \A b \in 1..4 :
               /\ t[b].TotalEvents >= 0
               /\ IsNone(t[b].Frequency) <=> t[b].TotalEvents = 0
               /\ t[b].TotalEvents = 0 => IsNone(t[b].AvgRecovery)

\* C13 as stated: any list of episodes gives the table of four buckets.
C13_AlwaysFourBuckets ==
    (pc = "done" /\ ~IsNone(all_periods)) =>
        ~IsNone(freq_drops_df) /\ FourBuckets

\* C13: a table is returned exactly when the episodes' series spans at
\* least a year and some episode has a depth <= -5%; it then has exactly
\* the four buckets Pullback, Correction, Bear Market, Crash in this order,
\* and a bucket without events is present with count 0 and neither a
\* frequency nor an average recovery.
C13_FourBucketsWhenShown ==
    pc = "done" =>
        /\ ~IsNone(freq_drops_df) <=>
               /\ ~IsNone(all_periods)
               /\ Get(total_years)[1] >= Get(total_years)[2]
               /\ DepthAtOrBelow(-5) # {}
        /\ ~IsNone(freq_drops_df) => FourBuckets

\* A table with an empty bucket and one that is not.
C13_Witness ==
    /\ FreqTableShown
    /\ \E b, c \in 1..4 :
           /\ Get(freq_drops_df)[b].TotalEvents = 0
           /\ Get(freq_drops_df)[c].TotalEvents > 0

\* ------------------------------------------------------------------------
\* The page script up to the forward-return table

\* Rows beyond MinFwdLen of the longest enumerated series.
MaxExtra == 4

\* Length of the cycle of closes an enumerated series repeats.
CycleLen == 3

FwdPrices == {80, 90, 100}

\* Days between consecutive rows: about a month, and about a quarter.
FwdSteps == {31, 92}

FwdStart == DaysFromCivil(2015, 2, 16)

FwdSeries(cycle, step, n) ==
    [k \in 1..n |->
        Row(FwdStart + (k - 1) * step, cycle[((k - 1) % Len(cycle)) + 1])]

\* Twenty consecutive days inside one quarter.
FwdOneQuarter == DailyRows(DaysFromCivil(2015, 1, 5), [k \in 1..20 |-> 100 - k])

\* Daily rows in the first and the third quarter of 2015, none in the second.
FwdEmptyQuarter ==
    DailyRows(DaysFromCivil(2015, 3, 16), [k \in 1..12 |-> 100 - k])
    \o DailyRows(DaysFromCivil(2015, 9, 21), [k \in 1..12 |-> 70 + k])

FwdInputs ==
    {None, Some(Scenario10), Some(FwdOneQuarter), Some(FwdEmptyQuarter)}
    \cup {Some(FwdSeries(c, st, n)) :
            c \in [1..CycleLen -> FwdPrices], st \in FwdSteps,
            n \in MinFwdLen..(MinFwdLen + MaxExtra)}

InitFwd ==
    /\ daily \in FwdInputs
    /\ pc = "fwd"
    /\ df = <<>>
    /\ i = 0
    /\ periods = <<>>
    /\ mdd_table = None
    /\ all_periods = None
    /\ total_years = None
    /\ freq_drops_df = None
    /\ q_close = <<>>
    /\ q_ret = <<>>
    /\ worst = <<>>
    /\ rows = <<>>
    /\ last = None
    /\ dd_table = None
    /\ win_df = None
    /\ hist = None
    /\ ret = <<>>
    /\ r_missed = <<>>
    /\ cost_df = None
    /\ sp500_history = None
    /\ now_et_dt = 0
    /\ hists = <<>>
    /\ tickers_ok = <<>>
    /\ chg_pct = <<>>
    /\ this_month_pct = <<>>
    /\ last_month_pct = <<>>
    /\ df_1d = None
    /\ top15_periods = None
    /\ weekly_signal_gemini_cache = <<>>
    /\ last_file = None
    /\ default_file = None
    /\ now_ts = 0
    /\ weekly_ret = None
    /\ fear_greed = 0
    /\ disparity_pct = 0
    /\ breadth_pct = 0
    /\ condition = None

NextFwd ==
    \/ FwdUnavailable
    \/ FwdNoWorstQuarter
    \/ FwdBegin
    \/ FwdSkipAnchor
    \/ FwdAppendRow
    \/ FwdReturn

SpecFwd == InitFwd /\ [][NextFwd]_vars

\* ------------------------------------------------------------------------
\* Properties of the forward-return table

\* The dates of the sorted frame, and its last date.
FrameDates == {df[k].Date : k \in 1..Len(df)}

LastDate == df[Len(df)].Date

\* The target date of horizon h for the last anchor.
Target(h) == DateOffsetMonths(Get(last).qdate, HorizonMonths[h])

\* The rows of the sorted frame dated d or later.
OnOrAfter(d) == {k \in 1..Len(df) : df[k].Date >= d}

\* C7: the forward price looked up for a target date is the close of the
\* first row dated on or after the target, whether or not the target itself
\* is a date of the series, and it is missing exactly when the target is
\* after the last date of the series.
C7_LookupOnOrAfter ==
    ~IsNone(last) =>
        \A h \in 1..5 :
            LET p == Get(last).p[h]
            IN  /\ IsNone(p) <=> Target(h) > LastDate
                /\ ~IsNone(p) =>
                       \E k \in OnOrAfter(Target(h)) :
                           /\ \A m \in OnOrAfter(Target(h)) : k <= m
                           /\ Get(p) = df[k].Close

\* An anchor with a target that is no date of the series and has a later
\* row, and with another target beyond the last date.
C7_Witness ==
    /\ ~IsNone(last)
    /\ \E h \in 1..5 :
           /\ Target(h) \notin FrameDates
           /\ Target(h) < LastDate
           /\ ~IsNone(Get(last).p[h])
    /\ \E h \in 1..5 : Target(h) > LastDate /\ IsNone(Get(last).p[h])

Abs(x) == IF x < 0 THEN -x ELSE x

\* The integer v is num / den rounded: within a half of it.  For tenths v
\* and num / den in tenths, v is the quotient rounded to one decimal.
IsRounded(v, num, den) == 2 * Abs(v * den - num) <= den

\* C8: in the row of every anchor, the forward return of each horizon is
\* (forward price / anchor price - 1) * 100 rounded to one decimal when the
\* target date is within the data, and missing, never 0, when it is beyond.
C8_ForwardReturn ==
    ~IsNone(last) =>
        \A h \in 1..5 :
            LET shown == rows[Len(rows)].Forward[h]
                p0    == Get(last).p0
            IN  IF Target(h) > LastDate THEN IsNone(shown)
                ELSE /\ ~IsNone(shown)
                     /\ IsRounded(Get(shown),
                            (df[MinOf(OnOrAfter(Target(h)))].Close - p0) * 1000, p0)

\* An anchor's row with a horizon beyond the data and a horizon within it
\* whose return is not 0.
C8_Witness ==
    /\ ~IsNone(last)
    /\ \E h \in 1..5 : Target(h) > LastDate /\ IsNone(rows[Len(rows)].Forward[h])
    /\ \E h \in 1..5 :
           /\ Target(h) <= LastDate
           /\ ~IsNone(rows[Len(rows)].Forward[h])
           /\ Get(rows[Len(rows)].Forward[h]) # 0

\* The anchors' rows of the returned table, and its last row.
AnchorRows == SubSeq(Get(dd_table), 1, Len(Get(dd_table)) - 1)

BottomRow == Get(dd_table)[Len(Get(dd_table))]

\* The anchors with a value at horizon h, and the sum of those values.
WithValue(h) == {k \in 1..Len(AnchorRows) : ~IsNone(AnchorRows[k].Forward[h])}

RECURSIVE SumOver(_, _)
SumOver(S, h) ==
    IF S = {} THEN 0
    ELSE LET k == CHOOSE x \in S : TRUE
         IN  Get(AnchorRows[k].Forward[h]) + SumOver(S \ {k}, h)

\* The table ends with an Average row, the only one.
OneAverageRowLast ==
    /\ Len(Get(dd_table)) >= 2
    /\ BottomRow.Date = Average
    /\ \A k \in 1..Len(AnchorRows) : AnchorRows[k].Date # Average

\* C9 as stated: the Average of each forward-return column is the mean of
\* the column's present values.
C9_AverageIsExactMean ==
    ~IsNone(dd_table) =>
        /\ OneAverageRowLast
        /\ \A h \in 1..5 :
               WithValue(h) # {} =>
                   /\ ~IsNone(BottomRow.Forward[h])
                   /\ Get(BottomRow.Forward[h]) * Cardinality(WithValue(h))
                          = SumOver(WithValue(h), h)

\* C9: the table ends with exactly one Average row; its value in each
\* forward-return column is the mean, rounded to one decimal, of the values
\* of the anchors that have one in that column, each column counting its own
\* anchors, and is missing when no anchor has a value there.
C9_AverageIsRoundedMean ==
    ~IsNone(dd_table) =>
        /\ OneAverageRowLast
        /\ \A h \in 1..5 :
               IF WithValue(h) = {} THEN IsNone(BottomRow.Forward[h])
               ELSE /\ ~IsNone(BottomRow.Forward[h])
                    /\ IsRounded(Get(BottomRow.Forward[h]),
                           SumOver(WithValue(h), h), Cardinality(WithValue(h)))

\* A table where some anchors, not all, have a value in one column while
\* every anchor has one in another, and the means are not 0.
C9_Witness ==
    /\ ~IsNone(dd_table)
    /\ \E h, g \in 1..5 :
           /\ WithValue(g) = 1..Len(AnchorRows)
           /\ WithValue(h) # {}
           /\ WithValue(h) # WithValue(g)
           /\ SumOver(WithValue(h), h) # 0
           /\ SumOver(WithValue(g), g) # 0

\* ------------------------------------------------------------------------
\* The page script at the rolling win rates

\* Most windows of a period's return in an enumerated series.
MaxWindows == 2

\* The closes before and after the step of an enumerated series.
WinPricePairs == {<<100, 100>>, <<100, 110>>, <<110, 100>>}

\* n daily rows: the first split rows close at lo, the others at hi.
WinSeries(n, split, lo, hi) ==
    DailyRows(StartDay, [k \in 1..n |-> IF k <= split THEN lo ELSE hi])

\* One row short of MinWinLen, and each period's length plus 0..MaxWindows
\* windows.
WinLengths ==
    {MinWinLen - 1}
    \cup {Periods[h].days + w : h \in 1..Len(Periods), w \in 0..MaxWindows}

WinInputs ==
    {None}
    \cup {Some(WinSeries(n, sp, pr[1], pr[2])) :
            n \in WinLengths, sp \in 0..(MaxWindows + 1), pr \in WinPricePairs}

InitWin ==
    /\ daily \in WinInputs
    /\ pc = "win"
    /\ df = <<>>
    /\ i = 0
    /\ periods = <<>>
    /\ mdd_table = None
    /\ all_periods = None
    /\ total_years = None
    /\ freq_drops_df = None
    /\ q_close = <<>>
    /\ q_ret = <<>>
    /\ worst = <<>>
    /\ rows = <<>>
    /\ last = None
    /\ dd_table = None
    /\ win_df = None
    /\ hist = None
    /\ ret = <<>>
    /\ r_missed = <<>>
    /\ cost_df = None
    /\ sp500_history = None
    /\ now_et_dt = 0
    /\ hists = <<>>
    /\ tickers_ok = <<>>
    /\ chg_pct = <<>>
    /\ this_month_pct = <<>>
    /\ last_month_pct = <<>>
    /\ df_1d = None
    /\ top15_periods = None
    /\ weekly_signal_gemini_cache = <<>>
    /\ last_file = None
    /\ default_file = None
    /\ now_ts = 0
    /\ weekly_ret = None
    /\ fear_greed = 0
    /\ disparity_pct = 0
    /\ breadth_pct = 0
    /\ condition = None

NextWin ==
    \/ WinUnavailable
    \/ WinNoRows
    \/ WinReturn

SpecWin == InitWin /\ [][NextWin]_vars

\* The series is longer than the period h, and the number of its windows.
HasWindows(h) ==
    IF IsNone(daily) THEN FALSE ELSE Len(Get(daily)) > Periods[h].days

Windows(h) == Len(Get(daily)) - Periods[h].days

\* The windows of period h whose close is above the close h days before.
Winning(h) ==
    {t \in (Periods[h].days + 1)..Len(df) :
        df[t].Close > df[t - Periods[h].days].Close}

\* The row of win_df for the period h.
WinRowOf(h) ==
    Get(win_df)[CHOOSE k \in 1..Len(Get(win_df)) :
                    Get(win_df)[k].period_label = Periods[h].label]

\* win_df, if any, has exactly the rows of the periods the series is longer
\* than, and an unavailable result otherwise.
WinRowsPresent ==
    /\ IsNone(win_df) <=> \A h \in 1..Len(Periods) : ~HasWindows(h)
    /\ ~IsNone(win_df) =>
           /\ Len(Get(win_df)) = Cardinality({h \in 1..Len(Periods) : HasWindows(h)})
           /\ \A h \in 1..Len(Periods) :
                  HasWindows(h) <=>
                      \E k \in 1..Len(Get(win_df)) :
                          Get(win_df)[k].period_label = Periods[h].label

\* C14 as stated: the win rate of a period is 100 times the fraction of its
\* windows with a return above 0, between 0 and 100, and a period not
\* shorter than the series has no row.
C14_WinRateIsExactFraction ==
    pc = "win_done" =>
        /\ WinRowsPresent
        /\ \A h \in 1..Len(Periods) :
               HasWindows(h) =>
                   /\ WinRowOf(h).win_rate * Windows(h) = 1000 * Cardinality(Winning(h))
                   /\ WinRowOf(h).win_rate >= 0
                   /\ WinRowOf(h).win_rate <= 1000

\* C14: for every period h shorter than the series, the win rate is 100
\* times the fraction, over all n - h windows, of the windows whose return
\* is above 0 (a return of exactly 0 is no win), rounded to one decimal; it
\* is between 0 and 100; a period not shorter than the series has no row.
C14_WinRateIsRoundedFraction ==
    pc = "win_done" =>
        /\ WinRowsPresent
        /\ \A h \in 1..Len(Periods) :
               HasWindows(h) =>
                   /\ IsRounded(WinRowOf(h).win_rate,
                                1000 * Cardinality(Winning(h)), Windows(h))
                   /\ WinRowOf(h).win_rate >= 0
                   /\ WinRowOf(h).win_rate <= 1000

\* A table with a period some of whose windows win and some do not, and a
\* period without a row.
C14_Witness ==
    /\ pc = "win_done"
    /\ ~IsNone(win_df)
    /\ \E h \in 1..Len(Periods) :
           /\ HasWindows(h)
           /\ Winning(h) # {}
           /\ Cardinality(Winning(h)) < Windows(h)
    /\ \E h \in 1..Len(Periods) : ~HasWindows(h)

\* ------------------------------------------------------------------------
\* The page script at the cost of missing the best days

\* Length of the cycle of closes an enumerated history repeats.
CostCycleLen == 3

\* Rows beyond MinHistLen of the longest enumerated history.
MaxHistExtra == 1

\* The closes of an enumerated history: powers of two.
CostPrices == {1, 2, 4}

\* n daily rows: the first nans without a close (NaN), the others with the
\* closes of the cycle in turn.
CostSeries(cycle, n, nans) ==
    [k \in 1..n |->
        Row(StartDay + k - 1,
            IF k <= nans THEN None ELSE Some(cycle[((k - 1) % Len(cycle)) + 1]))]

\* The example of the specification, returns 0.01, -0.02, 0.05, 0.01: five
\* rows.
ExampleHist ==
    [k \in 1..5 |->
        Row(StartDay + k - 1,
            Some(<<100000000, 101000000, 98980000, 103929000, 104968290>>[k]))]

CostInputs ==
    {None, Some(ExampleHist)}
    \cup {Some(CostSeries(c, n, nans)) :
            c \in [1..CostCycleLen -> CostPrices],
            n \in (MinHistLen - 1)..(MinHistLen + MaxHistExtra),
            nans \in {0, MinRetLen, MinRetLen + 1}}

InitCost ==
    /\ hist \in CostInputs
    /\ pc = "cost"
    /\ daily = None
    /\ df = <<>>
    /\ i = 0
    /\ periods = <<>>
    /\ mdd_table = None
    /\ all_periods = None
    /\ total_years = None
    /\ freq_drops_df = None
    /\ q_close = <<>>
    /\ q_ret = <<>>
    /\ worst = <<>>
    /\ rows = <<>>
    /\ last = None
    /\ dd_table = None
    /\ win_df = None
    /\ ret = <<>>
    /\ r_missed = <<>>
    /\ cost_df = None
    /\ sp500_history = None
    /\ now_et_dt = 0
    /\ hists = <<>>
    /\ tickers_ok = <<>>
    /\ chg_pct = <<>>
    /\ this_month_pct = <<>>
    /\ last_month_pct = <<>>
    /\ df_1d = None
    /\ top15_periods = None
    /\ weekly_signal_gemini_cache = <<>>
    /\ last_file = None
    /\ default_file = None
    /\ now_ts = 0
    /\ weekly_ret = None
    /\ fear_greed = 0
    /\ disparity_pct = 0
    /\ breadth_pct = 0
    /\ condition = None

NextCost ==
    \/ CostUnavailable
    \/ CostTooFewReturns
    \/ CostFullyInvested
    \/ CostMissedTopN
    \/ CostReturn

SpecCost == InitCost /\ [][NextCost]_vars

\* The rows of ret that the last missed_top_n has changed.
Changed == {k \in 1..Len(ret) : r_missed[k].val # ret[k].val}

\* How often the value x occurs in a series of returns.
CountIn(returns_series, x) ==
    Cardinality({k \in 1..Len(returns_series) : QuotEq(returns_series[k].val, x)})

\* How many of the n largest returns of ret have the value x: those the
\* larger returns leave room for.
TopShare(x, n) ==
    LET above == Cardinality({m \in 1..Len(ret) : QuotLess(x, ret[m].val)})
        room  == IF n > above THEN n - above ELSE 0
    IN  IF CountIn(ret, x) < room THEN CountIn(ret, x) ELSE room

\* The values of r_missed are those of ret with n of its largest replaced
\* by 0, value by value.
LargestReplaced(n) ==
    /\ \A k \in 1..Len(ret) :
           ret[k].val[1] # 0 =>
               CountIn(r_missed, ret[k].val)
                   = CountIn(ret, ret[k].val) - TopShare(ret[k].val, n)
    /\ CountIn(r_missed, <<0, 1>>)
           = CountIn(ret, <<0, 1>>) - TopShare(<<0, 1>>, n) + n

\* The closes of the history, NaN left out, and the binary exponent of the
\* last over the first.
HistCloses == DropNa(Get(hist))

FullExp == Log2(HistCloses[Len(HistCloses)].Close) - Log2(HistCloses[1].Close)

\* The sum of the exponents of the factors 1 + v of the rows of ret in S.
RECURSIVE ExpOver(_)
ExpOver(S) ==
    IF S = {} THEN 0
    ELSE LET k == CHOOSE x \in S : TRUE
         IN  FactorExp(ret[k].val) + ExpOver(S \ {k})

\* C15: on a history of at least 100 rows and 50 returns, each scenario
\* 'missed top K days', K = 10, 20, 30, sets exactly the K largest daily
\* returns to 0 and leaves the length of the sequence and every other return
\* as they are; its value is initial * product(1 + r) of the changed
\* sequence, and 'Fully Invested' (K = 0) that of the unchanged one.
C15_ZeroesTopK ==
    /\ (pc = "cost_missed" /\ i >= 1) =>
           /\ Len(r_missed) = Len(ret)
           /\ \A k \in 1..Len(ret) :
                  /\ r_missed[k].Date = ret[k].Date
                  /\ r_missed[k].val = ret[k].val \/ r_missed[k].val[1] = 0
           /\ LargestReplaced(TopCounts[i])
           /\ rows[i + 1].scenario = ScenarioLabels[i]
           /\ rows[i + 1].final_value =
                  [initial |-> Initial, exp2 |-> FullExp - ExpOver(Changed)]
    /\ pc = "cost_missed" =>
           /\ rows[1].scenario = "Fully Invested"
           /\ rows[1].final_value = [initial |-> Initial, exp2 |-> FullExp]
    /\ (pc = "cost_done" /\ ~IsNone(cost_df)) => Len(Get(cost_df)) = 4

\* The example of the claim has a result: a value for its returns.
ExampleHasResult ==
    (pc = "cost_done" /\ hist = Some(ExampleHist)) => ~IsNone(cost_df)

\* C15 as stated: the above, and a result for the example of four returns.
C15_ZeroesTopKAndExample == C15_ZeroesTopK /\ ExampleHasResult

\* The ten largest returns set to 0, a return as large as one of them left
\* as it is, and a negative return left as it is.
C15_Witness ==
    /\ pc = "cost_missed"
    /\ i = 1
    /\ Cardinality(Changed) = 10
    /\ \E k \in Changed, m \in (1..Len(ret)) \ Changed :
           QuotEq(ret[k].val, ret[m].val)
    /\ \E m \in 1..Len(ret) : ret[m].val[1] < 0 /\ r_missed[m] = ret[m]

\* The days of ret with a return above 0.
PositiveDays == {k \in 1..Len(ret) : ret[k].val[1] > 0}

\* a <= b for two compounded values of one initial amount.
ValueLeq(a, b) == a.initial = b.initial /\ a.exp2 <= b.exp2

\* C16: the values of the table do not increase from Fully Invested over
\* 10 and 20 to 30 missed days: the value for K missed days is at most the
\* value before it whenever at least K days have a return above 0.
C16_NonIncreasing ==
    (pc = "cost_done" /\ ~IsNone(cost_df)) =>
        \A j \in 1..Len(TopCounts) :
            Cardinality(PositiveDays) >= TopCounts[j] =>
                ValueLeq(Get(cost_df)[j + 1].final_value,
                         Get(cost_df)[j].final_value)

\* A table over at least 30 days of positive return whose four values fall
\* strictly.
C16_Witness ==
    /\ pc = "cost_done"
    /\ ~IsNone(cost_df)
    /\ Cardinality(PositiveDays) >= 30
    /\ \A j \in 1..Len(TopCounts) :
           Get(cost_df)[j + 1].final_value.exp2 < Get(cost_df)[j].final_value.exp2

\* ------------------------------------------------------------------------
\* The fetch: _fetch_sp500_daily_from_1950 and _fetch_sp500_history

\* len(hist) < 2
MinRawLen == 2

\* len(df) < 4
MinCleanLen == 4

\* df["Date"] >= "1950-01-01"
Cutoff1950 == DaysFromCivil(1950, 1, 1)

\* hist is None or hist.empty or len(hist) < 2. A provider that raises is
\* an answer of None: the except clause returns None as well.
NoHistory(h) == IF IsNone(h) THEN TRUE ELSE Len(Get(h)) < MinRawLen

\* len(df) < 4: return None, else df.
CleanedOrNone(cleaned) ==
    IF Len(cleaned) < MinCleanLen THEN None ELSE Some(cleaned)

\* _fetch_sp500_daily_from_1950 on the provider's answer h: the rows with a
\* close, from 1950 on, in the provider's order.
FetchDailyFrom1950(h) ==
    IF NoHistory(h)
    THEN None
    ELSE LET From1950(row) == row.Date >= Cutoff1950
         IN  CleanedOrNone(SelectSeq(DropNa(Get(h)), From1950))

\* The fallback of _fetch_sp500_history on the provider's second answer h:
\* df.dropna(), whatever is left of it.
FetchFallback(h) == IF NoHistory(h) THEN None ELSE Some(DropNa(Get(h)))

\* Length of the provider's longest enumerated answers, beyond the minima.
FetchExtra == 1

\* What is wrong with an enumerated answer of the provider.
Defects == {"none", "dup", "zero", "negative", "old", "unsorted"}

\* Row k of an answer of n rows on consecutive days with rising closes: the
\* first nans rows have no close; "dup" gives row 3 the date of row 2,
\* "zero" and "negative" give row 3 such a close, "old" dates row 1 in 1949,
\* "unsorted" swaps the dates of rows 2 and 3.
RawRow(k, nans, defect) ==
    LET date  == CASE defect = "dup" /\ k = 3      -> StartDay + 1
                   [] defect = "old" /\ k = 1      -> DaysFromCivil(1949, 12, 30)
                   [] defect = "unsorted" /\ k = 2 -> StartDay + 2
                   [] defect = "unsorted" /\ k = 3 -> StartDay + 1
                   [] OTHER                        -> StartDay + k - 1
        close == CASE k <= nans                    -> None
                   [] defect = "zero" /\ k = 3     -> Some(0)
                   [] defect = "negative" /\ k = 3 -> Some(-5)
                   [] OTHER                        -> Some(50 + k)
    IN  Row(date, close)

RawSeries(n, nans, defect) == [k \in 1..n |-> RawRow(k, nans, defect)]

RawLengths ==
    (1..(MinCleanLen + FetchExtra)) \cup (MinScanLen..(MinScanLen + FetchExtra))

\* ticker.history(period="max", auto_adjust=True): nothing, an empty frame,
\* or rows.
ProviderAnswers ==
    {None, Some(<<>>)}
    \cup {Some(RawSeries(n, nans, defect)) :
            n \in RawLengths, nans \in 0..2, defect \in Defects}

\* _fetch_sp500_history() returns what _fetch_sp500_daily_from_1950() gave.
HistoryFromDaily ==
    /\ pc = "fetch"
    /\ daily' = FetchDailyFrom1950(hist)
    /\ ~IsNone(daily')
    /\ sp500_history' = daily'
    /\ pc' = "top15"
    /\ UNCHANGED <<scanVars, fwdVars, homeVars>>
    /\ UNCHANGED <<df, i, win_df, hist, ret, r_missed, cost_df>>
    /\ UNCHANGED <<now_et_dt, hists, tickers_ok, chg_pct, this_month_pct,
                   last_month_pct, df_1d>>

\* _fetch_sp500_daily_from_1950() gave None: _fetch_sp500_history() asks the
\* provider again and returns the fallback's frame.
HistoryFallback ==
    /\ pc = "fetch"
    /\ daily' = FetchDailyFrom1950(hist)
    /\ IsNone(daily')
    /\ \E again \in ProviderAnswers :
           /\ hist' = again
           /\ sp500_history' = FetchFallback(again)
    /\ pc' = "top15"
    /\ UNCHANGED <<scanVars, fwdVars, homeVars>>
    /\ UNCHANGED <<df, i, win_df, ret, r_missed, cost_df>>
    /\ UNCHANGED <<now_et_dt, hists, tickers_ok, chg_pct, this_month_pct,
                   last_month_pct, df_1d>>

InitFetch ==
    /\ hist \in ProviderAnswers
    /\ pc = "fetch"
    /\ daily = None
    /\ df = <<>>
    /\ i = 0
    /\ periods = <<>>
    /\ mdd_table = None
    /\ all_periods = None
    /\ total_years = None
    /\ freq_drops_df = None
    /\ q_close = <<>>
    /\ q_ret = <<>>
    /\ worst = <<>>
    /\ rows = <<>>
    /\ last = None
    /\ dd_table = None
    /\ win_df = None
    /\ ret = <<>>
    /\ r_missed = <<>>
    /\ cost_df = None
    /\ sp500_history = None
    /\ now_et_dt = 0
    /\ hists = <<>>
    /\ tickers_ok = <<>>
    /\ chg_pct = <<>>
    /\ this_month_pct = <<>>
    /\ last_month_pct = <<>>
    /\ df_1d = None
    /\ top15_periods = None
    /\ weekly_signal_gemini_cache = <<>>
    /\ last_file = None
    /\ default_file = None
    /\ now_ts = 0
    /\ weekly_ret = None
    /\ fear_greed = 0
    /\ disparity_pct = 0
    /\ breadth_pct = 0
    /\ condition = None

\* The fetch, and the first analytic function taking the series over.
NextFetch ==
    \/ HistoryFromDaily
    \/ HistoryFallback
    \/ Top15Unavailable
    \/ Top15Begin

SpecFetch == InitFetch /\ [][NextFetch]_vars

\* The frame's dates strictly increase.
StrictlyIncreasingDates(frame) ==
    \A k \in 1..(Len(frame) - 1) : frame[k].Date < frame[k + 1].Date

\* The rows of the provider's answer that have a positive close.
ValidRows(h) ==
    LET Positive(row) == row.Close > 0
    IN  SelectSeq(DropNa(h), Positive)

\* The close a normalised series holds for the date d of a valid row: the
\* close of the last valid row of that date.
LastSeen(valid, d) ==
    valid[MaxOf({k \in 1..Len(valid) : valid[k].Date = d})].Close

\* C17: the series the drawdown scan works on, fetched and sorted, has
\* strictly increasing dates and positive closes only, and holds for each
\* date the last-seen close of the provider's rows of that date.
C17_NormalisedSeries ==
    (pc = "top15_loop") =>
        /\ StrictlyIncreasingDates(df)
        /\ \A k \in 1..Len(df) : df[k].Close > 0
        /\ \A k \in 1..Len(df) :
               df[k].Close = LastSeen(ValidRows(Get(hist)), df[k].Date)

\* C18: neither function returns a frame of fewer than 2 rows: with fewer
\* than 2 valid points left the result is None.
C18_NoneBelowTwoPoints ==
    /\ ~IsNone(daily) => Len(Get(daily)) >= MinRawLen
    /\ ~IsNone(sp500_history) => Len(Get(sp500_history)) >= MinRawLen

\* ------------------------------------------------------------------------
\* The length guard of the drawdown scans

\* A series was handed over and it has fewer than MinScanLen rows.
ShortSeries == ~IsNone(daily) /\ Len(Get(daily)) < MinScanLen

\* A series of MinScanLen rows or more was handed over.
ScannableSeries == ~IsNone(daily) /\ Len(Get(daily)) >= MinScanLen

\* C19: on a series of fewer than 10 rows neither drawdown function enters
\* its loop, and each returns what it returns for an empty episode list:
\* None, and (None, None). On a series of 10 rows or more each function
\* sorts the frame and scans it, and returns None only when the scan has
\* found no episode.
C19_ScanFromTenRows ==
    /\ ShortSeries =>
           /\ pc \notin {"top15_loop", "all_loop"}
           /\ df = <<>> /\ periods = <<>>
           /\ mdd_table = None
           /\ all_periods = None /\ total_years = None
    /\ (ScannableSeries /\ pc # "top15") =>
           /\ df = SortIndex(Get(daily))
           /\ pc = "freq" => (IsNone(mdd_table) <=> periods = <<>>)
           /\ pc = "done" => (IsNone(all_periods) <=> periods = <<>>)

\* Both functions have returned on a series of nine rows.
C19_Witness ==
    /\ pc = "done"
    /\ ~IsNone(daily)
    /\ Len(Get(daily)) = MinScanLen - 1
    /\ mdd_table = None
    /\ all_periods = None

\* ------------------------------------------------------------------------
\* The home page's table of daily changes: get_1day_data (src/app.py)

TICKERS_1DAY == <<"VOO", "QQQ", "VWO", "VXUS", "BND", "SGOV", "GLD", "PDBC">>

\* How many tickers of TICKERS_1DAY the loop is followed for.
MaxTickers == 2

\* len(hist) < 2
MinDayLen == 2

\* now_et_dt.replace(day=1).date(): the first day of the month of day z.
MonthStart(z) == LET c == Strftime(z) IN DaysFromCivil(c[1], c[2], 1)

\* this_start, last_end and last_start for the day now.
ThisStart(now) == MonthStart(now)

LastEnd(now) == ThisStart(now) - 1

LastStart(now) == MonthStart(LastEnd(now))

\* round(diff / base * 100.0, 2), in hundredths of a percent.
Pct2(diff, base) == RoundHalfEven(10000 * diff, base)

\* hist is None or len(hist) < 2. A provider that raises is an answer of
\* None: the except clause appends the same.
NoRows(h) == IF IsNone(h) THEN TRUE ELSE Len(Get(h)) < MinDayLen

\* hist.sort_index(ascending=True)
Sorted(h) == SortIndex(Get(h))

\* close.iloc[-1] and close.iloc[-2]
Latest(h) == Sorted(h)[Len(Get(h))].Close

Prev(h) == Sorted(h)[Len(Get(h)) - 1].Close

\* The mask taking every row of the history.
MaskThisAll(sorted, now) == sorted

\* hist.loc[mask_this]: the rows dated this_start or later.
MaskThis(sorted, now) ==
    LET InThis(row) == row.Date >= ThisStart(now)
    IN  SelectSeq(sorted, InThis)

\* hist.loc[mask_last]: the rows dated within the previous month.
MaskLast(sorted, now) ==
    LET InLast(row) == row.Date >= LastStart(now) /\ row.Date <= LastEnd(now)
    IN  SelectSeq(sorted, InLast)

\* Which division of the pass raises ZeroDivisionError, if any: the one of
\* the change (by prev), of the month-to-date return (by start_close) or of
\* the last month's return (by first_close).
RaisedAt(h, now) ==
    IF Prev(h) = 0
    THEN "chg"
    ELSE IF MaskThis(Sorted(h), now) # <<>>
            /\ MaskThis(Sorted(h), now)[1].Close = 0
    THEN "this"
    ELSE IF Len(MaskLast(Sorted(h), now)) >= 2
            /\ MaskLast(Sorted(h), now)[1].Close = 0
    THEN "last"
    ELSE "no"

\* round(pct, 2) of the last two closes.
ChgValue(h) == Some(Pct2(Latest(h) - Prev(h), Prev(h)))

\* The month-to-date entry: None without a row in the mask.
ThisValue(h, now) ==
    LET sub == MaskThis(Sorted(h), now)
    IN  IF sub = <<>>
        THEN None
        ELSE Some(Pct2(Latest(h) - sub[1].Close, sub[1].Close))

\* The last month's entry: None with fewer than two rows in the mask.
LastValue(h, now) ==
    LET sub == MaskLast(Sorted(h), now)
    IN  IF Len(sub) < 2
        THEN None
        ELSE Some(Pct2(sub[Len(sub)].Close - sub[1].Close, sub[1].Close))

\* What one pass of the loop with the provider's answer h appends to
\* chg_pct, this_month_pct, last_month_pct and (for ticker t) tickers_ok.
\* The except clause appends None to the three lists and t to tickers_ok
\* whatever the pass has appended before it raised.
AppendedChg(h, now) ==
    IF NoRows(h) THEN <<None>>
    ELSE CASE RaisedAt(h, now) = "chg"  -> <<None>>
           [] RaisedAt(h, now) = "this" -> <<ChgValue(h), None>>
           [] RaisedAt(h, now) = "last" -> <<ChgValue(h), None>>
           [] OTHER                     -> <<ChgValue(h)>>

AppendedThis(h, now) ==
    IF NoRows(h) THEN <<None>>
    ELSE CASE RaisedAt(h, now) = "chg"  -> <<None>>
           [] RaisedAt(h, now) = "this" -> <<None>>
           [] RaisedAt(h, now) = "last" -> <<ThisValue(h, now), None>>
           [] OTHER                     -> <<ThisValue(h, now)>>

AppendedLast(h, now) ==
    IF NoRows(h) THEN <<None>>
    ELSE IF RaisedAt(h, now) = "no" THEN <<LastValue(h, now)>> ELSE <<None>>

AppendedOk(h, now, t) ==
    IF NoRows(h) THEN <<t>>
    ELSE IF RaisedAt(h, now) \in {"this", "last"} THEN <<t, t>> ELSE <<t>>

\* (values + [None] * n)[:n]
PadTo(values, n) == [k \in 1..n |-> IF k <= Len(values) THEN values[k] ELSE None]

\* The frame returned from the lists: one row per entry of tickers_ok. The
\* column "Time ET", the same text in every row, is left out.
OneDayFrame ==
    AsSeq([k \in 1..Len(tickers_ok) |->
              [Ticker    |-> tickers_ok[k],
               Chg       |-> chg_pct[k],
               ThisMonth |-> PadTo(this_month_pct, Len(tickers_ok))[k],
               LastMonth |-> PadTo(last_month_pct, Len(tickers_ok))[k]]],
          Len(tickers_ok))

\* _placeholder_1day_data, in hundredths of a percent.
Placeholder ==
    LET chg_col  == <<12, -5, 31, 18, 2, 1, -15, 42>>
        this_col == <<210, 320, 180, 200, 30, 20, -50, 510>>
        last_col == <<150, 280, 120, 140, 40, 30, 20, 320>>
    IN  [k \in 1..Len(TICKERS_1DAY) |->
            [Ticker    |-> TICKERS_1DAY[k],
             Chg       |-> Some(chg_col[k]),
             ThisMonth |-> Some(this_col[k]),
             LastMonth |-> Some(last_col[k])]]

\* The trading days an enumerated history may hold, and the closes of two
\* histories on them.
OneDayDates ==
    <<DaysFromCivil(2020, 2, 3), DaysFromCivil(2020, 2, 28),
      DaysFromCivil(2020, 3, 2), DaysFromCivil(2020, 3, 9)>>

OneDayCloses == {<<40, 50, 60, 50>>, <<60, 50, 40, 50>>}

\* The rows of the days picked, in date order.
OneDaySeries(picked, closes) ==
    LET Picked(row) == row.Date \in {OneDayDates[j] : j \in picked}
    IN  SelectSeq([j \in 1..Len(OneDayDates) |-> Row(OneDayDates[j], closes[j])],
                  Picked)

\* yf.Ticker(t).history(period="3mo", interval="1d"), each row under the
\* day of its timestamp in New York (tz_convert(et)): nothing (or a raise),
\* rows of positive closes in date order, the four rows latest first, and
\* rows with a close of 0.
OneDayAnswers ==
    {None}
    \cup {Some(OneDaySeries(picked, closes)) :
            picked \in SUBSET (1..Len(OneDayDates)), closes \in OneDayCloses}
    \cup {Some([k \in 1..4 |-> Row(OneDayDates[5 - k], <<50, 60, 50, 40>>[k])]),
          Some(OneDaySeries(1..4, <<0, 50, 60, 50>>)),
          Some(OneDaySeries(1..4, <<40, 50, 0, 50>>))}

\* The days the page may be opened on.
Nows == {DaysFromCivil(2020, 3, 9), DaysFromCivil(2020, 4, 1)}

\* import yfinance fails: the placeholder.
OneDayNoYfinance ==
    /\ pc = "oneday"
    /\ hists = <<>>
    /\ df_1d' = Some(Placeholder)
    /\ pc' = "oneday_done"
    /\ UNCHANGED <<scanVars, fwdVars, homeVars>>
    /\ UNCHANGED <<daily, df, i, win_df, hist, ret, r_missed, cost_df>>
    /\ UNCHANGED <<sp500_history, now_et_dt, hists, tickers_ok, chg_pct,
                   this_month_pct, last_month_pct>>

\* One pass of the loop over the tickers.
OneDayTicker ==
    /\ pc = "oneday"
    /\ Len(hists) < MaxTickers
    /\ \E h \in OneDayAnswers :
           /\ hists' = Append(hists, h)
           /\ chg_pct' = chg_pct \o AppendedChg(h, now_et_dt)
           /\ this_month_pct' = this_month_pct \o AppendedThis(h, now_et_dt)
           /\ last_month_pct' = last_month_pct \o AppendedLast(h, now_et_dt)
           /\ tickers_ok' =
                  tickers_ok
                  \o AppendedOk(h, now_et_dt, TICKERS_1DAY[Len(hists) + 1])
    /\ UNCHANGED <<scanVars, fwdVars, homeVars>>
    /\ UNCHANGED <<daily, pc, df, i, win_df, hist, ret, r_missed, cost_df>>
    /\ UNCHANGED <<sp500_history, now_et_dt, df_1d>>

\* Every change is None: the placeholder.
OneDayPlaceholder ==
    /\ pc = "oneday"
    /\ Len(hists) = MaxTickers
    /\ \A k \in 1..Len(chg_pct) : IsNone(chg_pct[k])
    /\ df_1d' = Some(Placeholder)
    /\ pc' = "oneday_done"
    /\ UNCHANGED <<scanVars, fwdVars, homeVars>>
    /\ UNCHANGED <<daily, df, i, win_df, hist, ret, r_missed, cost_df>>
    /\ UNCHANGED <<sp500_history, now_et_dt, hists, tickers_ok, chg_pct,
                   this_month_pct, last_month_pct>>

\* The frame of the lists.
OneDayReturn ==
    /\ pc = "oneday"
    /\ Len(hists) = MaxTickers
    /\ \E k \in 1..Len(chg_pct) : ~IsNone(chg_pct[k])
    /\ df_1d' = Some(OneDayFrame)
    /\ pc' = "oneday_done"
    /\ UNCHANGED <<scanVars, fwdVars, homeVars>>
    /\ UNCHANGED <<daily, df, i, win_df, hist, ret, r_missed, cost_df>>
    /\ UNCHANGED <<sp500_history, now_et_dt, hists, tickers_ok, chg_pct,
                   this_month_pct, last_month_pct>>

InitOneDay ==
    /\ now_et_dt \in Nows
    /\ pc = "oneday"
    /\ daily = None
    /\ df = <<>>
    /\ i = 0
    /\ periods = <<>>
    /\ mdd_table = None
    /\ all_periods = None
    /\ total_years = None
    /\ freq_drops_df = None
    /\ q_close = <<>>
    /\ q_ret = <<>>
    /\ worst = <<>>
    /\ rows = <<>>
    /\ last = None
    /\ dd_table = None
    /\ win_df = None
    /\ hist = None
    /\ ret = <<>>
    /\ r_missed = <<>>
    /\ cost_df = None
    /\ sp500_history = None
    /\ hists = <<>>
    /\ tickers_ok = <<>>
    /\ chg_pct = <<>>
    /\ this_month_pct = <<>>
    /\ last_month_pct = <<>>
    /\ df_1d = None
    /\ top15_periods = None
    /\ weekly_signal_gemini_cache = <<>>
    /\ last_file = None
    /\ default_file = None
    /\ now_ts = 0
    /\ weekly_ret = None
    /\ fear_greed = 0
    /\ disparity_pct = 0
    /\ breadth_pct = 0
    /\ condition = None

NextOneDay ==
    \/ OneDayNoYfinance
    \/ OneDayTicker
    \/ OneDayPlaceholder
    \/ OneDayReturn

SpecOneDay == InitOneDay /\ [][NextOneDay]_vars

\* The days of the rows of a history, and the close of the row of day d
\* (the days of a history are distinct).
DaysOf(h) == {Get(h)[j].Date : j \in 1..Len(Get(h))}

CloseOn(h, d) == Get(h)[CHOOSE j \in 1..Len(Get(h)) : Get(h)[j].Date = d].Close

\* A history of rows with positive closes, or no history.
PriceSeriesOrNone(h) ==
    IsNone(h) \/ \A j \in 1..Len(Get(h)) : Get(h)[j].Close > 0

\* The trading days of h on or after the first of the month of now, and
\* those inside the calendar month before it.
CurrentMonthDays(h, now) ==
    LET c == Strftime(now)
    IN  {d \in DaysOf(h) : d >= DaysFromCivil(c[1], c[2], 1)}

PriorMonthDays(h, now) ==
    LET c     == Strftime(now)
        prior == IF c[2] = 1 THEN <<c[1] - 1, 12>> ELSE <<c[1], c[2] - 1>>
    IN  {d \in DaysOf(h) : <<Strftime(d)[1], Strftime(d)[2]>> = prior}

\* The frame returned was built from the provider's answers.
FrameFromAnswers ==
    /\ pc = "oneday_done"
    /\ hists # <<>>
    /\ \E k \in 1..Len(chg_pct) : ~IsNone(chg_pct[k])
    /\ \A k \in 1..Len(hists) : PriceSeriesOrNone(hists[k])

\* The entry is v hundredths with v / 100 = (to - from) / from * 100.
IsExactPct(entry, from, to) ==
    ~IsNone(entry) /\ Get(entry) * from = 10000 * (to - from)

\* The entry is v hundredths with v / 100 the percentage rounded to 2
\* decimals.
IsRoundedPct(entry, from, to) ==
    ~IsNone(entry) /\ IsRounded(Get(entry), 10000 * (to - from), from)

Top15CallAgain ==
    /\ pc = "freq"
    /\ pc' = "top15"
    /\ UNCHANGED <<scanVars, fwdVars, pageVars>>
    /\ UNCHANGED <<daily, df, i>>

NextRerun ==
    \/ Top15Unavailable
    \/ Top15Begin
    \/ Top15SkipBelowMax
    \/ Top15SkipNoDecline
    \/ Top15NoWindow
    \/ Top15Recovered
    \/ Top15NotRecovered
    \/ Top15CallAgain

SpecRerun == Init /\ [][NextRerun]_vars

RowsAtOrAbove(k) == {m \in (k + 1)..(Len(df) - 1) : CloseAt(m) >= CloseAt(k)}

\* A step of the ranked-table scan that appends an episode at the peak i.
Top15Appends == pc = "top15_loop" /\ Len(periods') = Len(periods) + 1

\* C22: the episode appended for the peak at row i recovers at the first
\* later row whose close is at or above the peak's (an equal close counts),
\* every row between the two being below the peak; it is unrecovered exactly
\* when no later row is at or above the peak.
C22_RecoveryIsFirstAtOrAbove ==
    [][Top15Appends =>
          LET e == periods'[Len(periods')]
              R == RowsAtOrAbove(i)
          IN  /\ e.From = Strftime(IndexAt(i))
              /\ IsNone(e.To) <=> R = {}
              /\ R # {} =>
                    /\ e.To = Some(Strftime(IndexAt(MinOf(R))))
                    /\ \A m \in (i + 1)..(MinOf(R) - 1) : CloseAt(m) < CloseAt(i)
                    /\ MinOf(R) > i + 1]_vars

\* An episode that recovered at a close equal to its peak's, an earlier row
\* above the trough having stayed below the peak, is on the list beside an
\* open one.
C22_Witness ==
    /\ pc = "freq"
    /\ Len(periods) >= 2
    /\ IsNone(periods[Len(periods)].To)
    /\ \E k \in 0..(Len(df) - 1) :
          /\ Strftime(IndexAt(k)) = periods[1].From
          /\ RowsAtOrAbove(k) # {}
          /\ CloseAt(MinOf(RowsAtOrAbove(k))) = CloseAt(k)
          /\ MinOf(RowsAtOrAbove(k)) > k + 2
          /\ periods[1].To = Some(Strftime(IndexAt(MinOf(RowsAtOrAbove(k)))))

\* The rows strictly between the peak at row k and its recovery, or the end
\* of the series when it has none.
RowsInside(k) ==
    (k + 1)..((IF RowsAtOrAbove(k) = {} THEN Len(df) ELSE MinOf(RowsAtOrAbove(k))) - 1)

\* The lowest close of these rows, and the first row holding it.
LowestInside(k) == MinOf({CloseAt(m) : m \in RowsInside(k)})

FirstLowestInside(k) == MinOf({m \in RowsInside(k) : CloseAt(m) = LowestInside(k)})

\* A step of the second scan that appends an episode at the peak i.
AllAppends == pc = "all_loop" /\ Len(periods') = Len(periods) + 1

\* C23: the trough of the episode appended for the peak at row i is the
\* lowest close strictly between the peak and the recovery (or the end of the
\* series), taken at the earliest row holding it; the depth is measured from
\* the peak to that close.
C23_TroughIsEarliestMinimum ==
    [][/\ Top15Appends =>
             LET e == periods'[Len(periods')]
             IN  /\ e.Trough = Strftime(IndexAt(FirstLowestInside(i)))
                 /\ e.ToTrough = IndexAt(FirstLowestInside(i)) - IndexAt(i)
                 /\ e.Depth = RoundTenths((LowestInside(i) - CloseAt(i)) * 100,
                                          CloseAt(i))
       /\ AllAppends =>
             LET e == periods'[Len(periods')]
             IN  e.Depth[1] * CloseAt(i) =
                     (LowestInside(i) - CloseAt(i)) * 100 * e.Depth[2]]_vars

\* A finished scan holds an episode whose lowest close is met on two days,
\* and the trough is dated the first of them.
C23_Witness ==
    /\ pc = "freq"
    /\ \E e \in 1..Len(periods) :
          \E k \in 0..(Len(df) - 1) :
              /\ Strftime(IndexAt(k)) = periods[e].From
              /\ ~BelowMax(k)
              /\ \E a, b \in RowsInside(k) :
                    /\ a < b
                    /\ CloseAt(a) = LowestInside(k)
                    /\ CloseAt(b) = LowestInside(k)
                    /\ IndexAt(a) < IndexAt(b)
                    /\ a = FirstLowestInside(k)
                    /\ periods[e].Trough = Strftime(IndexAt(a))

\* The day a "%Y-%m-%d" string names.
DayOf(str) == DaysFromCivil(str[1], str[2], str[3])

\* C24: a recovered episode takes recovery date - trough date days to
\* recover and recovery date - peak date days in all, which is the days to
\* the trough plus the days to recover, both at least 1; an unrecovered
\* episode has no recovery date, no days to recover and no length, and has
\* its days to the trough.
C24_DayCounts ==
    HoldsTop15Periods =>
        \A e \in 1..Len(periods) :
            LET p == periods[e]
            IN  /\ p.ToTrough = DayOf(p.Trough) - DayOf(p.From)
                /\ p.ToTrough >= 1
                /\ ~IsNone(p.To) =>
                      /\ p.Recovery = Some(DayOf(Get(p.To)) - DayOf(p.Trough))
                      /\ p.Length = Some(DayOf(Get(p.To)) - DayOf(p.From))
                      /\ Get(p.Length) = p.ToTrough + Get(p.Recovery)
                      /\ Get(p.Recovery) >= 1
                /\ IsNone(p.To) => IsNone(p.Recovery) /\ IsNone(p.Length)

\* Row m is in a drawdown: an earlier close is above its close.
InDrawdown(m) == \E a \in 0..(m - 1) : CloseAt(a) > CloseAt(m)

\* The rows that can be the peak of episode e: dated as its peak, in no
\* drawdown, and followed by a lower close.
PeakRows(e) ==
    {k \in 0..(Len(df) - 2) :
        /\ Strftime(IndexAt(k)) = periods[e].From
        /\ ~InDrawdown(k)
        /\ CloseAt(k + 1) < CloseAt(k)}

\* Row m lies strictly after the peak of episode e and strictly before its
\* recovery, or up to the end of the series when e is open.
Covers(e, m) == \E k \in PeakRows(e) : m \in RowsInside(k)

\* The rows the scan is through with: all of them once it has returned.
RowsScanned == 0..((IF pc = "freq" THEN Len(df) ELSE i) - 1)

\* C25: the scan misses no drawdown and counts none twice: every row whose
\* close is below the running maximum lies strictly after the peak and
\* strictly before the recovery (or up to the end of the series) of exactly
\* one episode of the list.
C25_EveryDrawdownRowInOneEpisode ==
    HoldsTop15Periods =>
        \A m \in RowsScanned \cap 0..(Len(df) - 1) :
            InDrawdown(m) =>
                Cardinality({e \in 1..Len(periods) : Covers(e, m)}) = 1

\* The scan has returned three episodes or more, the last one open, and the
\* recovery row of the first is the peak of the second.
C25_Witness ==
    /\ pc = "freq"
    /\ Len(periods) >= 3
    /\ IsNone(periods[Len(periods)].To)
    /\ periods[1].To = Some(periods[2].From)
    /\ \E m \in 0..(Len(df) - 1) : InDrawdown(m) /\ Covers(2, m)

\* ------------------------------------------------------------------------
\* Progress of the two scan loops

\* A peak, a lower close and the recovery all carrying one date (rows 9 to
\* 11), as a provider that repeats a date hands them over.
ScenarioDupPeak ==
    [k \in 1..12 |->
        Row(StartDay + (IF k <= 9 THEN k ELSE IF k <= 11 THEN 9 ELSE k - 2),
            <<50, 55, 60, 65, 70, 75, 80, 85, 100, 90, 100, 110>>[k])]

LoopInputs == {None} \cup {Some(s) : s \in Scenarios \cup {ScenarioDupPeak}}

\* The longest episode list followed.
MaxEpisodes == 20

InitLoop ==
    /\ daily \in LoopInputs
    /\ pc = "top15"
    /\ df = <<>>
    /\ i = 0
    /\ periods = <<>>
    /\ mdd_table = None
    /\ all_periods = None
    /\ total_years = None
    /\ freq_drops_df = None
    /\ q_close = <<>>
    /\ q_ret = <<>>
    /\ worst = <<>>
    /\ rows = <<>>
    /\ last = None
    /\ dd_table = None
    /\ win_df = None
    /\ hist = None
    /\ ret = <<>>
    /\ r_missed = <<>>
    /\ cost_df = None
    /\ sp500_history = None
    /\ now_et_dt = 0
    /\ hists = <<>>
    /\ tickers_ok = <<>>
    /\ chg_pct = <<>>
    /\ this_month_pct = <<>>
    /\ last_month_pct = <<>>
    /\ df_1d = None
    /\ top15_periods = None
    /\ weekly_signal_gemini_cache = <<>>
    /\ last_file = None
    /\ default_file = None
    /\ now_ts = 0
    /\ weekly_ret = None
    /\ fear_greed = 0
    /\ disparity_pct = 0
    /\ breadth_pct = 0
    /\ condition = None

NextLoop ==
    \/ Top15Unavailable
    \/ Top15Begin
    \/ Top15SkipBelowMax
    \/ Top15SkipNoDecline
    \/ Top15NoWindow
    \/ Len(periods) < MaxEpisodes /\ Top15Recovered
    \/ Top15NotRecovered
    \/ AllUnavailable
    \/ AllBegin
    \/ AllSkipBelowMax
    \/ AllSkipNoDecline
    \/ AllNoWindow
    \/ Len(periods) < MaxEpisodes /\ AllRecovered
    \/ AllNotRecovered

SpecLoop == InitLoop /\ [][NextLoop]_vars

\* C26: the scan index i strictly increases on every iteration of either
\* loop that does not leave the loop (a skipped row, a peak with no decline
\* after it, a jump to the recovery row), so that the loop ends.
C26_IndexStrictlyIncreases ==
    [][(pc \in {"top15_loop", "all_loop"} /\ pc' = pc) => i' > i]_vars

\* ------------------------------------------------------------------------
\* The two copies of the scan

\* The list _build_top15_drawdowns_table ranks, and the list
\* _get_all_drawdown_periods returns: empty when there is none.
RankedInput == IF IsNone(top15_periods) THEN <<>> ELSE Get(top15_periods)

AllReturned == IF IsNone(all_periods) THEN <<>> ELSE Get(all_periods)

\* The exact depth d = <<num, den>> is the fall from the close of a row dated
\* from to the lowest close of a later row dated trough.
IsDepthBetween(d, from, trough) ==
    \E k \in 0..(Len(df) - 1) :
        /\ Strftime(IndexAt(k)) = from
        /\ ~InDrawdown(k)
        /\ \E t \in RowsInside(k) :
              /\ Strftime(IndexAt(t)) = trough
              /\ d[1] * CloseAt(k) = (CloseAt(t) - CloseAt(k)) * 100 * d[2]

\* C27: on one series the two scans find the same episodes: the list
\* _get_all_drawdown_periods returns has as many episodes as the list
\* _build_top15_drawdowns_table ranks, in the same order, each with the depth
\* (before rounding) and the days to recover of its counterpart.
C27_ScansAgree ==
    pc = "done" =>
        /\ Len(AllReturned) = Len(RankedInput)
        /\ \A k \in 1..Len(RankedInput) :
              /\ AllReturned[k].Recovery = RankedInput[k].Recovery
              /\ RankedInput[k].Depth =
                    RoundTenths(AllReturned[k].Depth[1], AllReturned[k].Depth[2])
              /\ IsDepthBetween(AllReturned[k].Depth, RankedInput[k].From,
                                RankedInput[k].Trough)

\* Both scans are through with three episodes or more: one is open, one has
\* recovered from a trough more than a day after its peak, and one depth is
\* not a whole number of tenths.
C27_Witness ==
    /\ pc = "done"
    /\ Len(RankedInput) >= 3
    /\ \E k \in 1..Len(AllReturned) : IsNone(AllReturned[k].Recovery)
    /\ \E k \in 1..Len(AllReturned) :
          /\ ~IsNone(AllReturned[k].Recovery)
          /\ RankedInput[k].ToTrough > 1
    /\ \E k \in 1..Len(AllReturned) :
          (AllReturned[k].Depth[1] * 10) % AllReturned[k].Depth[2] # 0

\* ------------------------------------------------------------------------
\* Alignment of the lists of get_1day_data

\* get_1day_data has returned a frame built from its lists (not the
\* placeholder).
LiveFrame ==
    /\ pc = "oneday_done"
    /\ \E k \in 1..Len(chg_pct) : ~IsNone(chg_pct[k])

\* C28: whatever the histories are and wherever a pass of the loop fails,
\* each pass adds one entry to each of the four lists, and the live table has
\* one row per ticker followed, in the order of TICKERS_1DAY, each row
\* holding the figures of its own ticker.
C28_ListsAligned ==
    /\ pc \in {"oneday", "oneday_done"} =>
          /\ Len(tickers_ok) = Len(hists)
          /\ Len(chg_pct) = Len(hists)
          /\ Len(this_month_pct) = Len(hists)
          /\ Len(last_month_pct) = Len(hists)
    /\ LiveFrame =>
          /\ Len(Get(df_1d)) = Len(hists)
          /\ \A k \in 1..Len(Get(df_1d)) :
                /\ Get(df_1d)[k].Ticker = TICKERS_1DAY[k]
                /\ Get(df_1d)[k].Chg = chg_pct[k]
                /\ Get(df_1d)[k].Chg = AppendedChg(hists[k], now_et_dt)[1]

\* ------------------------------------------------------------------------
\* get_market_condition (src/app.py).  The three metrics are in tenths.

\* _zone_fear_greed(v): v < 30, v <= 70.
ZoneFearGreed(v) == IF v < 300 THEN "bad" ELSE IF v <= 700 THEN "neutral" ELSE "good"

\* _zone_disparity(v): v <= -5, v <= 8.
ZoneDisparity(v) == IF v <= -50 THEN "bad" ELSE IF v <= 80 THEN "neutral" ELSE "good"

\* _zone_breadth(v): v < 30, v <= 70.
ZoneBreadth(v) == IF v < 300 THEN "bad" ELSE IF v <= 700 THEN "neutral" ELSE "good"

\* sum(1 for z in (z_fg, z_d, z_b) if z == kind)
ZoneCount(z_fg, z_d, z_b, kind) ==
    (IF z_fg = kind THEN 1 ELSE 0) + (IF z_d = kind THEN 1 ELSE 0)
    + (IF z_b = kind THEN 1 ELSE 0)

\* Mutant of StateOf: one metric in a zone is enough.
StateOfAnyOne(bad_count, good_count) ==
    IF bad_count >= 1 THEN "COLD" ELSE IF good_count >= 1 THEN "HOT" ELSE "NEUTRAL"

\* The if / elif / else on the two counts.
StateOf(bad_count, good_count) ==
    IF bad_count >= 2 THEN "COLD" ELSE IF good_count >= 2 THEN "HOT" ELSE "NEUTRAL"

IsDivergence(z_d, z_b) ==
    \/ z_d \in {"good", "neutral"} /\ z_b = "bad"
    \/ z_d = "good" /\ z_b = "neutral"

\* The tuple get_market_condition returns.
MarketCondition(fg, d, b) ==
    [state |-> StateOf(ZoneCount(ZoneFearGreed(fg), ZoneDisparity(d),
                                 ZoneBreadth(b), "bad"),
                       ZoneCount(ZoneFearGreed(fg), ZoneDisparity(d),
                                 ZoneBreadth(b), "good")),
     zones |-> [fear_greed |-> ZoneFearGreed(fg), disparity |-> ZoneDisparity(d),
                breadth |-> ZoneBreadth(b)],
     is_divergence |-> IsDivergence(ZoneDisparity(d), ZoneBreadth(b))]

\* The inputs tried: every value within MaxOffset tenths of a threshold.
MaxOffset == 2

Around(t) == (t - MaxOffset)..(t + MaxOffset)

FearGreedInputs == Around(300) \cup Around(700)

DisparityInputs == Around(-50) \cup Around(80)

BreadthInputs == Around(300) \cup Around(700)

GetMarketCondition ==
    /\ pc = "condition"
    /\ condition' = Some(MarketCondition(fear_greed, disparity_pct, breadth_pct))
    /\ pc' = "condition_done"
    /\ UNCHANGED <<scanVars, fwdVars, appVars>>
    /\ UNCHANGED <<daily, df, i, win_df, hist, ret, r_missed, cost_df>>
    /\ UNCHANGED <<weekly_signal_gemini_cache, last_file, default_file, now_ts,
                   weekly_ret, fear_greed, disparity_pct, breadth_pct>>

InitCondition ==
    /\ daily = None
    /\ pc = "condition"
    /\ df = <<>>
    /\ i = 0
    /\ periods = <<>>
    /\ mdd_table = None
    /\ all_periods = None
    /\ total_years = None
    /\ freq_drops_df = None
    /\ q_close = <<>>
    /\ q_ret = <<>>
    /\ worst = <<>>
    /\ rows = <<>>
    /\ last = None
    /\ dd_table = None
    /\ win_df = None
    /\ hist = None
    /\ ret = <<>>
    /\ r_missed = <<>>
    /\ cost_df = None
    /\ sp500_history = None
    /\ now_et_dt = 0
    /\ hists = <<>>
    /\ tickers_ok = <<>>
    /\ chg_pct = <<>>
    /\ this_month_pct = <<>>
    /\ last_month_pct = <<>>
    /\ df_1d = None
    /\ top15_periods = None
    /\ weekly_signal_gemini_cache = <<>>
    /\ last_file = None
    /\ default_file = None
    /\ now_ts = 0
    /\ weekly_ret = None
    /\ fear_greed \in FearGreedInputs
    /\ disparity_pct \in DisparityInputs
    /\ breadth_pct \in BreadthInputs
    /\ condition = None

NextCondition == GetMarketCondition

SpecCondition == InitCondition /\ [][NextCondition]_vars

\* How many of the three zones returned are z.
ZonesIn(z) ==
    Cardinality({m \in {"fear_greed", "disparity", "breadth"} :
                    Get(condition).zones[m] = z})

\* C30: the state returned is COLD exactly when two or more of the three
\* zones are bad, HOT exactly when fewer than two are bad and two or more are
\* good, NEUTRAL otherwise; two or more bad and two or more good never occur
\* together, so testing HOT before COLD gives the same state.
C30_ConditionFromZoneCounts ==
    ~IsNone(condition) =>
        /\ Get(condition).state = "COLD" <=> ZonesIn("bad") >= 2
        /\ Get(condition).state = "HOT" <=>
              (ZonesIn("bad") < 2 /\ ZonesIn("good") >= 2)
        /\ Get(condition).state = "NEUTRAL" <=>
              (ZonesIn("bad") < 2 /\ ZonesIn("good") < 2)
        /\ ~(ZonesIn("bad") >= 2 /\ ZonesIn("good") >= 2)
        /\ Get(condition).state =
              (IF ZonesIn("good") >= 2 THEN "HOT"
               ELSE IF ZonesIn("bad") >= 2 THEN "COLD" ELSE "NEUTRAL")

\* HOT is returned with one metric in the bad zone, the fear/greed value
\* sitting on its upper threshold plus a tenth.
C30_Witness ==
    /\ ~IsNone(condition)
    /\ Get(condition).state = "HOT"
    /\ ZonesIn("bad") = 1
    /\ fear_greed = 701

\* ------------------------------------------------------------------------
\* The Weekly Signal (src/app.py): get_weekly_signal_gemini_table,
\* _load_last_weekly_signal and the fallback of the home page.
\* _weekly_signal_gemini_cache is a function from the buckets stored to
\* [text, ts, headlines]; a file is None when absent, else Some of the
\* object it holds, a key the object lacks being None.

WEEKLY_SIGNAL_CACHE_TTL == 86400

\* _weekly_signal_gemini_cache.get(bucket_date_str)
CacheGet(bucket_date_str) ==
    IF bucket_date_str \in DOMAIN weekly_signal_gemini_cache
    THEN Some(weekly_signal_gemini_cache[bucket_date_str])
    ELSE None

\* cached and (now_ts - cached[1]) < _WEEKLY_SIGNAL_CACHE_TTL
CacheFresh(bucket_date_str, now) ==
    /\ ~IsNone(CacheGet(bucket_date_str))
    /\ now - Get(CacheGet(bucket_date_str)).ts < WEEKLY_SIGNAL_CACHE_TTL

\* _weekly_signal_gemini_cache[bucket_date_str] = (text, now_ts, headlines)
CachePut(bucket_date_str, entry) ==
    [b \in DOMAIN weekly_signal_gemini_cache \cup {bucket_date_str} |->
        IF b = bucket_date_str THEN entry ELSE weekly_signal_gemini_cache[b]]

\* Mutant of HeadlinesOnly: the table the file holds is carried over.
HeadlinesKeepTable(bucket_date_str, headlines, now) ==
    [bucket_str |-> bucket_date_str,
     table_md   |-> IF IsNone(last_file) THEN None ELSE Get(last_file).table_md,
     headlines  |-> headlines,
     saved_at   |-> Some(now)]

\* The object of the first json.dump: bucket_str, headlines and saved_at.
HeadlinesOnly(bucket_date_str, headlines, now) ==
    [bucket_str |-> bucket_date_str,
     table_md   |-> None,
     headlines  |-> headlines,
     saved_at   |-> Some(now)]

\* The object of the second json.dump, with table_md.
FullEdition(bucket_date_str, text, headlines, now) ==
    [bucket_str |-> bucket_date_str,
     table_md   |-> Some(text),
     headlines  |-> headlines,
     saved_at   |-> Some(now)]

\* open(path, "w") and json.dump inside try / except: pass: the file holds
\* the object, or what it held when the write fails.
Written(file, object, ok) == IF ok THEN Some(object) ELSE file

\* _read_file(path)
ReadFile(file) ==
    IF IsNone(file)
    THEN [table_md |-> None, saved_at |-> None, headlines |-> <<>>]
    ELSE [table_md  |-> Get(file).table_md,
          saved_at  |-> Get(file).saved_at,
          headlines |-> IF Len(Get(file).headlines) < 3 THEN <<>>
                        ELSE SubSeq(Get(file).headlines, 1, 3)]

\* _load_last_weekly_signal() on the two files.
LoadLastWeeklySignal(last_f, default_f) ==
    IF \/ ~IsNone(ReadFile(last_f).table_md)
       \/ ~IsNone(ReadFile(last_f).saved_at) /\ ReadFile(last_f).headlines # <<>>
    THEN ReadFile(last_f)
    ELSE ReadFile(default_f)

\* What the home page shows for the call's result: the table returned, else
\* the table of _load_last_weekly_signal().
TableContent(table_md, last_f, default_f) ==
    IF ~IsNone(table_md) THEN table_md
    ELSE LoadLastWeeklySignal(last_f, default_f).table_md

\* The buckets, headline lists and Gemini texts tried; a text holds a "|".
Buckets == {"2020-03-01_gemini_v1", "2020-03-08_gemini_v1"}

HeadlineLists == {<<"Fed holds", "CPI cools", "Jobs beat">>,
                  <<"Fed cuts", "-", "-">>}

Tables == {"|A|", "|B|"}

\* The sample edition shipped as weekly_signal_default.json.
DefaultEdition ==
    [bucket_str |-> "", table_md |-> Some("|sample|"),
     headlines |-> <<"s1", "s2", "s3">>, saved_at |-> None]

\* Calls are half a TTL or a whole TTL apart, up to MaxTicks half TTLs.
MaxTicks == 3

Tick == WEEKLY_SIGNAL_CACHE_TTL \div 2

Elapsed == {Tick, 2 * Tick}

\* The home page runs the section at a later time.
SectionAt(now) ==
    /\ pc = "weekly"
    /\ now_ts < MaxTicks * Tick
    /\ now_ts' = now

WeeklyUnchanged ==
    /\ UNCHANGED <<scanVars, fwdVars, appVars>>
    /\ UNCHANGED <<daily, pc, df, i, win_df, hist, ret, r_missed, cost_df>>
    /\ UNCHANGED <<default_file, fear_greed, disparity_pct, breadth_pct,
                   condition>>

\* The cached table is younger than the TTL: returned as it is.
WeeklyCached ==
    \E dt \in Elapsed, b \in Buckets :
        LET now == now_ts + dt IN
        /\ SectionAt(now)
        /\ CacheFresh(b, now)
        /\ weekly_ret' =
               Some([table_md      |-> Some(Get(CacheGet(b)).text),
                     headlines     |-> Get(CacheGet(b)).headlines,
                     success_ts    |-> Some(Get(CacheGet(b)).ts),
                     table_content |-> Some(Get(CacheGet(b)).text)])
        /\ UNCHANGED <<weekly_signal_gemini_cache, last_file>>
        /\ WeeklyUnchanged

\* No GEMINI_API_KEY: returned before anything is fetched or written.
WeeklyNoApiKey ==
    \E dt \in Elapsed, b \in Buckets :
        LET now == now_ts + dt IN
        /\ SectionAt(now)
        /\ ~CacheFresh(b, now)
        /\ weekly_ret' =
               Some([table_md      |-> None,
                     headlines     |-> <<>>,
                     success_ts    |-> None,
                     table_content |-> TableContent(None, last_file, default_file)])
        /\ UNCHANGED <<weekly_signal_gemini_cache, last_file>>
        /\ WeeklyUnchanged

\* The headlines are saved, and one of the two models answers with a table:
\* cached, saved with the headlines and returned.
WeeklyGenerated ==
    \E dt \in Elapsed, b \in Buckets, headlines \in HeadlineLists,
       text \in Tables, ok1, ok2 \in BOOLEAN :
        LET now == now_ts + dt IN
        /\ SectionAt(now)
        /\ ~CacheFresh(b, now)
        /\ weekly_signal_gemini_cache' =
               CachePut(b, [text |-> text, ts |-> now, headlines |-> headlines])
        /\ last_file' =
               Written(Written(last_file, HeadlinesOnly(b, headlines, now), ok1),
                       FullEdition(b, text, headlines, now), ok2)
        /\ weekly_ret' =
               Some([table_md      |-> Some(text),
                     headlines     |-> headlines,
                     success_ts    |-> Some(now),
                     table_content |-> Some(text)])
        /\ WeeklyUnchanged

\* The headlines are saved, and both models raise or answer without a
\* table: (None, error, headlines, None), and the page falls back on
\* _load_last_weekly_signal().
WeeklyFailed ==
    \E dt \in Elapsed, b \in Buckets, headlines \in HeadlineLists,
       ok1 \in BOOLEAN :
        LET now == now_ts + dt IN
        /\ SectionAt(now)
        /\ ~CacheFresh(b, now)
        /\ last_file' = Written(last_file, HeadlinesOnly(b, headlines, now), ok1)
        /\ weekly_ret' =
               Some([table_md      |-> None,
                     headlines     |-> headlines,
                     success_ts    |-> None,
                     table_content |-> TableContent(None, last_file', default_file)])
        /\ UNCHANGED weekly_signal_gemini_cache
        /\ WeeklyUnchanged

\* The script is run anew: line 696 binds the cache to an empty dict.
ScriptRerun ==
    /\ pc = "weekly"
    /\ weekly_signal_gemini_cache # <<>>
    /\ weekly_signal_gemini_cache' = <<>>
    /\ UNCHANGED <<last_file, now_ts, weekly_ret>>
    /\ WeeklyUnchanged

InitWeekly ==
    /\ daily = None
    /\ pc = "weekly"
    /\ df = <<>>
    /\ i = 0
    /\ periods = <<>>
    /\ mdd_table = None
    /\ all_periods = None
    /\ total_years = None
    /\ freq_drops_df = None
    /\ q_close = <<>>
    /\ q_ret = <<>>
    /\ worst = <<>>
    /\ rows = <<>>
    /\ last = None
    /\ dd_table = None
    /\ win_df = None
    /\ hist = None
    /\ ret = <<>>
    /\ r_missed = <<>>
    /\ cost_df = None
    /\ sp500_history = None
    /\ now_et_dt = 0
    /\ hists = <<>>
    /\ tickers_ok = <<>>
    /\ chg_pct = <<>>
    /\ this_month_pct = <<>>
    /\ last_month_pct = <<>>
    /\ df_1d = None
    /\ top15_periods = None
    /\ weekly_signal_gemini_cache = <<>>
    /\ last_file = None
    /\ default_file \in {None, Some(DefaultEdition)}
    /\ now_ts = 0
    /\ weekly_ret = None
    /\ fear_greed = 0
    /\ disparity_pct = 0
    /\ breadth_pct = 0
    /\ condition = None

NextWeekly ==
    \/ WeeklyCached
    \/ WeeklyNoApiKey
    \/ WeeklyGenerated
    \/ WeeklyFailed
    \/ ScriptRerun

SpecWeekly == InitWeekly /\ [][NextWeekly]_vars

\* The section has just run and the call returned no table.
CallWithoutTable ==
    /\ now_ts' # now_ts
    /\ IsNone(Get(weekly_ret').table_md)

\* C29: once a table has been generated and saved, a later call that returns
\* no table (no key, an error of Gemini, an answer without a table) leaves
\* _load_last_weekly_signal() returning that table.
C29_LastEditionKept ==
    [][(/\ ~IsNone(last_file)
        /\ ~IsNone(Get(last_file).table_md)
        /\ CallWithoutTable) =>
           LoadLastWeeklySignal(last_file', default_file').table_md =
               Get(last_file).table_md]_vars

====
